---------------------------- MODULE Spec2Model ----------------------------
(***************************************************************************)
(* Model of the rosa-flowers-admin dashboard.                              *)
(*                                                                         *)
(* Each view is a React component: its useState cells are the variables,   *)
(* each event handler is an action, and every `await` of an HTTP call      *)
(* splits a handler into the step that sends the request and the steps     *)
(* that run when the response is delivered.  A request in flight is a      *)
(* record that carries the values the handler's closure captured when it   *)
(* was invoked (React handlers see the state of the render that created    *)
(* them, not the state at the time the response arrives).                  *)
(*                                                                         *)
(* The REST server is external: it is modelled as the store the requests   *)
(* read and write, processing each request at an arbitrary moment between  *)
(* its sending and the delivery of its response.                           *)
(***************************************************************************)
EXTENDS Integers, Sequences, FiniteSets, TLC

VARIABLES
    \* ---- Orders view (src/unnamed/part_002) ----
    ordersCopy,     \* which of the two Orders components is mounted
    srvStatus,      \* server: status of every order
    orders,         \* useState orders
    loading,        \* useState loading
    activeTab,      \* useState activeTab
    updatingId,     \* useState updatingId
    error,          \* useState error
    selectedOrder,  \* useState selectedOrder
    net,            \* requests of the Orders view in flight
    reported,       \* history: status the server last told the client, per order
    nActions        \* history: number of tab clicks and status changes so far

VARIABLES
    \* ---- Loyalty view (src/src/pages/Loyalty.tsx) ----
    srvPoints,          \* server: bonus balance of every user
    srvLedger,          \* server: ledger (amounts, oldest first) of every user
    users,              \* useState users
    loyaltyLoading,     \* useState loading
    loyaltyError,       \* useState error
    selectedUser,       \* useState selectedUser
    history,            \* useState history
    historyLoading,     \* useState historyLoading
    showAdjust,         \* useState showAdjust
    adjustAmount,       \* useState adjustAmount (a string: sequence of characters)
    adjustDescription,  \* useState adjustDescription (sequence of characters)
    adjusting,          \* useState adjusting
    calls,              \* requests of the Loyalty view in flight
    nClicks,            \* history: number of rows opened and forms submitted
    nEarned             \* history: number of balance changes made by others

VARIABLES
    \* ---- App shell and Login (src/unnamed/part_000, src/src/pages/Login.tsx) ----
    token,          \* localStorage 'rosa_admin_token'
    isAuth,         \* useState isAuth of App
    path,           \* the location the router matches
    loginLoading,   \* useState loading of Login
    loginError,     \* useState error of Login
    mounted,        \* App's effect has run
    loginMount,     \* the Login instance that is or was last mounted
    wire,           \* requests of App and Login in flight
    nAuthMe,        \* history: number of GET /auth/me requests sent
    nSteps          \* history: number of navigations, logins and logouts

VARIABLES
    \* ---- Catalog views (src/src/pages/Bouquets.tsx, ConstructorManager.tsx) ----
    catalogPage,      \* which of the two catalog components is mounted
    srvBouquets,      \* server: the bouquets
    srvData,          \* server: the constructor items of every tab
    bouquets,         \* useState bouquets
    bouquetsLoading,  \* useState loading of Bouquets
    itemData,         \* useState data of ConstructorManager
    dataLoading,      \* useState loading of ConstructorManager
    dataTab,          \* useState activeTab of ConstructorManager
    submitting,       \* useState submitting
    dataError,        \* useState error of ConstructorManager
    newName,          \* useState newName
    newPrice,         \* useState newPrice
    air,              \* requests of the catalog views in flight
    nCatalog          \* history: number of clicks and keystrokes so far

VARIABLES
    \* ---- Search box of Users.tsx and Loyalty.tsx ----
    searchView,     \* which of the two list views is mounted
    search,         \* useState search (sequence of characters)
    row             \* a user record of the list

VARIABLES
    \* ---- Forms (src/unnamed/part_001, src/src/pages/Settings.tsx, src/unnamed/part_004) ----
    formPage,        \* which of the three forms is mounted
    message,         \* useState message of Broadcast (sequence of characters)
    sending,         \* useState sending
    result,          \* useState result
    broadcastError,  \* useState error of Broadcast
    srvSettings,     \* server: the settings
    settings,        \* useState settings
    settingsLoading, \* useState loading of Settings
    saving,          \* useState saving
    settingsError,   \* useState error of Settings
    success,         \* useState success
    hideTimers,      \* pending setTimeout callbacks of Settings
    formId,          \* useParams().id of BouquetForm
    fetching,        \* useState fetching of BouquetForm
    formLoading,     \* useState loading of BouquetForm
    formError,       \* useState error of BouquetForm
    outbox,          \* requests of the forms in flight
    nForms           \* history: number of clicks and keystrokes so far

VARIABLES
    \* ---- the page ----
    mountedView     \* the group of components of this module that is mounted

ordersVars == <<ordersCopy, srvStatus, orders, loading, activeTab, updatingId,
                error, selectedOrder, net, reported, nActions>>

loyaltyVars == <<srvPoints, srvLedger, users, loyaltyLoading, loyaltyError,
                 selectedUser, history, historyLoading, showAdjust, adjustAmount,
                 adjustDescription, adjusting, calls, nClicks, nEarned>>

appVars == <<token, isAuth, path, mounted, loginLoading, loginError, loginMount,
             wire, nAuthMe, nSteps>>

catalogVars == <<catalogPage, srvBouquets, srvData, bouquets, bouquetsLoading,
                 itemData, dataLoading, dataTab, submitting, dataError, newName,
                 newPrice, air, nCatalog>>

searchVars == <<searchView, search, row>>

formsVars == <<formPage, message, sending, result, broadcastError, srvSettings,
               settings, settingsLoading, saving, settingsError, success,
               hideTimers, formId, fetching, formLoading, formError, outbox, nForms>>

vars == <<mountedView, ordersVars, loyaltyVars, appVars, catalogVars, searchVars,
          formsVars>>

---------------------------------------------------------------------------
(* Bounds *)

\* the number of tab clicks and status changes of a run
MaxActions == 2

\* the number of rows opened and adjust forms submitted of a run
MaxClicks == 3

\* the number of balance changes made by others during a run
MaxEarned == 1

\* the number of navigations, logins and logouts of a run
MaxSteps == 3

\* clicks and keystrokes in a catalog view
MaxCatalog == 4

\* the length of a search string
MaxQuery == 2

\* clicks and keystrokes in a form
MaxForms == 3

---------------------------------------------------------------------------
(* Orders view: constants of the source *)

\* the six statuses of the workflow
Workflow == {"new", "confirmed", "preparing", "delivering", "completed", "canceled"}

\* a status the server may hold that the client's tables do not list
UnknownStatus == "refunded"

statuses == <<"all", "new", "confirmed", "preparing", "delivering", "completed", "canceled">>

Tabs == {statuses[i] : i \in DOMAIN statuses}

\* the tabs the user clicks in the model
ClickedTabs == {t \in Tabs : t \in {"all", "new"}}

\* the table with a transition out of a terminal status
nextStatusesReopen ==
    [new        |-> <<"confirmed", "canceled">>,
     confirmed  |-> <<"preparing", "canceled">>,
     preparing  |-> <<"delivering", "canceled">>,
     delivering |-> <<"completed", "canceled">>,
     completed  |-> <<"new">>,
     canceled   |-> <<>>]

nextStatusesTable ==
    [new        |-> <<"confirmed", "canceled">>,
     confirmed  |-> <<"preparing", "canceled">>,
     preparing  |-> <<"delivering", "canceled">>,
     delivering |-> <<"completed", "canceled">>,
     completed  |-> <<>>,
     canceled   |-> <<>>]

Range(seq) == {seq[i] : i \in DOMAIN seq}

\* nextStatuses[s]: the array stored under key s, or Undefined when the
\* record has no such key
Undefined == "undefined"

nextStatuses(s) ==
    IF s \in DOMAIN nextStatusesTable THEN nextStatusesTable[s] ELSE Undefined

\* nextStatuses[s]?.length > 0
HasControl(s) ==
    LET a == nextStatuses(s) IN
    IF a = Undefined THEN FALSE ELSE Len(a) > 0

\* a control that offers cancellation whatever the status
OfferedAlwaysCancel(s) ==
    IF HasControl(s) THEN Range(nextStatuses(s)) ELSE {"canceled"}

\* the options a rendered control offers for a record of status s
Offered(s) ==
    IF HasControl(s) THEN Range(nextStatuses(s)) ELSE {}

---------------------------------------------------------------------------
(* Orders view: state *)

\* the orders the server holds
OrderIds == {1, 2}

NoOrder == [id |-> 0, status |-> "none"]
NoId == 0
Absent == "absent"

\* the error banner: '' or one of the strings the handlers set
NoError == [kind |-> "none", id |-> 0, text |-> ""]
ListError == [kind |-> "generic", id |-> 0, text |-> "Ne udalos zagruzit zakazy"]
StatusError(orderId) ==
    [kind |-> "generic", id |-> orderId, text |-> "Ne udalos obnovit status zakaza #"]
ServerError(m) == [kind |-> "server", id |-> 0, text |-> m]

\* err.response?.data?.error of a rejected request; NoBody for a failure
\* without a response body (network failure)
NoBody == "nobody"
ServerMessages == {"Invalid status transition"}

EmptyList == [o \in {1, 2} |-> "absent"]

\* A request in flight.  n tells equal requests apart: net is the multiset
\* of the requests the view has issued and not yet seen settle.
Blank == [kind |-> "none", phase |-> "none", tab |-> "all", id |-> 0,
          target |-> "none", ctab |-> "all", csel |-> 0, shown |-> "none",
          data |-> EmptyList, got |-> "none", body |-> "nobody", n |-> 1]

Copies(S, m) == {x \in S : [x EXCEPT !.n = 1] = [m EXCEPT !.n = 1]}

\* S with one more request equal to m
Put(S, m) == S \cup {[m EXCEPT !.n = Cardinality(Copies(S, m)) + 1]}

\* S with one request equal to m less
Take(S, m) == S \ {[m EXCEPT !.n = Cardinality(Copies(S, m))]}

\* api.get('/orders', { params })
ListRequest(status) == [Blank EXCEPT !.kind = "list", !.phase = "req", !.tab = status]

\* api.put(`/orders/${orderId}/status`, { status: newStatus }) together with
\* what the handler's closure holds: activeTab and selectedOrder?.id
\* (shown: the status the control that was used displayed)
PutRequest(orderId, newStatus, tab, sel, from) ==
    [Blank EXCEPT !.kind = "put", !.phase = "req", !.id = orderId,
                 !.target = newStatus, !.ctab = tab, !.csel = sel,
                 !.shown = from]

\* api.get(`/orders/${orderId}`) of the same handler invocation
DetailRequest(m) == [m EXCEPT !.kind = "detail", !.phase = "req", !.n = 1]

\* the rows of the table: the orders of the list last received
Listed == {o \in OrderIds : orders[o] # Absent}

\* the table is rendered when the spinner is not
TableShown == ~loading

\* the modal is an overlay over the whole page (fixed inset-0 z-50)
ModalOpen == selectedOrder # NoOrder

\* the orders the server holds when the view is mounted
InitialServer ==
    {[o \in OrderIds |-> IF o = 1 THEN "new" ELSE UnknownStatus],
     [o \in OrderIds |-> IF o = 1 THEN "canceled" ELSE "delivering"],
     [o \in OrderIds |-> IF o = 1 THEN "new" ELSE "delivering"]}

\* the state of the component before it is mounted
OrdersState ==
    /\ orders = EmptyList
    /\ loading = TRUE
    /\ activeTab = "all"
    /\ updatingId = NoId
    /\ error = NoError
    /\ selectedOrder = NoOrder
    /\ reported = [o \in OrderIds |-> Absent]
    /\ nActions = 0

OrdersUnmounted ==
    /\ OrdersState
    /\ ordersCopy = "detail"
    /\ srvStatus = [o \in OrderIds |-> "new"]
    /\ net = {}

OrdersInit ==
    /\ OrdersState
    /\ ordersCopy \in {"detail", "plain"}
    /\ srvStatus \in InitialServer
    \* useEffect(() => fetchOrders(activeTab), [activeTab]) has run on mount
    /\ net = {ListRequest("all")}

---------------------------------------------------------------------------
(* Orders view: handlers *)

\* fetchOrders(status): the state it sets before the request settles
FetchOrdersError == IF ordersCopy = "detail" THEN NoError ELSE error

\* onClick={() => setActiveTab(status)} and the effect on [activeTab]
SetActiveTab(t) ==
    /\ ~ModalOpen
    /\ t # activeTab
    /\ nActions < MaxActions
    /\ nActions' = nActions + 1
    /\ activeTab' = t
    /\ loading' = TRUE
    /\ error' = FetchOrdersError
    /\ net' = Put(net, ListRequest(t))
    /\ UNCHANGED <<ordersCopy, srvStatus, orders, updatingId, selectedOrder,
                   reported>>

\* onClick={() => setSelectedOrder(order)} of a row
OpenOrder(o) ==
    /\ ordersCopy = "detail"
    /\ TableShown /\ ~ModalOpen
    /\ o \in Listed
    /\ selectedOrder' = [id |-> o, status |-> orders[o]]
    /\ UNCHANGED <<ordersCopy, srvStatus, orders, loading, activeTab, updatingId,
                   error, net, reported, nActions>>

\* onClick={() => setSelectedOrder(null)}
CloseOrder ==
    /\ ModalOpen
    /\ selectedOrder' = NoOrder
    /\ UNCHANGED <<ordersCopy, srvStatus, orders, loading, activeTab, updatingId,
                   error, net, reported, nActions>>

\* handleStatusChange, up to its first await
StartStatusChange(orderId, newStatus, from) ==
    /\ nActions < MaxActions
    /\ updatingId' = orderId
    /\ error' = NoError
    /\ net' = Put(net, PutRequest(orderId, newStatus, activeTab,
                                   selectedOrder.id, from))
    /\ nActions' = nActions + 1
    /\ UNCHANGED <<ordersCopy, srvStatus, orders, loading, activeTab,
                   selectedOrder, reported>>

\* the options of the row's <select>
RowOptions(o) == Offered(orders[o])

\* the buttons of the modal
ModalOptions == Offered(selectedOrder.status)

\* the row's <select>: onChange -> handleStatusChange(order.id, e.target.value)
RowStatusChange(o, s) ==
    /\ TableShown /\ ~ModalOpen
    /\ o \in Listed
    /\ updatingId # o
    /\ s \in RowOptions(o)
    /\ StartStatusChange(o, s, orders[o])

\* the modal's buttons: onClick -> handleStatusChange(selectedOrder.id, s)
ModalStatusChange(s) ==
    /\ ModalOpen
    /\ updatingId # selectedOrder.id
    /\ s \in ModalOptions
    /\ StartStatusChange(selectedOrder.id, s, selectedOrder.status)

---------------------------------------------------------------------------
(* The server, as the Orders view's requests see it *)

\* GET /orders with the status filter of the tab
ServerOrders(tab) ==
    [o \in OrderIds |->
        IF tab = "all" \/ srvStatus[o] = tab THEN srvStatus[o] ELSE Absent]

\* the transition table of spec.md, section 4.1
AllowedNext ==
    [s \in Workflow |->
        CASE s = "new"        -> {"confirmed", "canceled"}
          [] s = "confirmed"  -> {"preparing", "canceled"}
          [] s = "preparing"  -> {"delivering", "canceled"}
          [] s = "delivering" -> {"completed", "canceled"}
          [] s = "completed"  -> {}
          [] s = "canceled"   -> {}]

\* the server lets an order advance along that table only (spec.md,
\* section 3, invariants)
ServerAllows(from, to) == from \in Workflow /\ to \in AllowedNext[from]

\* the request m settles as r
Settle(m, r) == Put(Take(net, m), r)

\* a response is lost or the server cannot be reached: no response body
ServerUnreachable(m) ==
    /\ m.phase = "req"
    /\ net' = Settle(m, [m EXCEPT !.phase = "fail", !.body = NoBody])
    /\ UNCHANGED <<ordersCopy, srvStatus, orders, loading, activeTab, updatingId,
                   error, selectedOrder, reported, nActions>>

ServerGetOrders(m) ==
    /\ m.kind = "list" /\ m.phase = "req"
    /\ net' = Settle(m, [m EXCEPT !.phase = "ok", !.data = ServerOrders(m.tab)])
    /\ UNCHANGED <<ordersCopy, srvStatus, orders, loading, activeTab, updatingId,
                   error, selectedOrder, reported, nActions>>

ServerPutStatus(m) ==
    /\ m.kind = "put" /\ m.phase = "req"
    /\ IF ServerAllows(srvStatus[m.id], m.target)
       THEN /\ srvStatus' = [srvStatus EXCEPT ![m.id] = m.target]
            /\ net' = Settle(m, [m EXCEPT !.phase = "ok"])
       ELSE /\ \E text \in ServerMessages :
                 net' = Settle(m, [m EXCEPT !.phase = "fail", !.body = text])
            /\ UNCHANGED srvStatus
    /\ UNCHANGED <<ordersCopy, orders, loading, activeTab, updatingId,
                   error, selectedOrder, reported, nActions>>

ServerGetOrder(m) ==
    /\ m.kind = "detail" /\ m.phase = "req"
    /\ net' = Settle(m, [m EXCEPT !.phase = "ok", !.got = srvStatus[m.id]])
    /\ UNCHANGED <<ordersCopy, srvStatus, orders, loading, activeTab, updatingId,
                   error, selectedOrder, reported, nActions>>

---------------------------------------------------------------------------
(* Orders view: continuations *)

\* what the client has been told about the orders of a list response
ReportList(data) ==
    [o \in OrderIds |-> IF data[o] # Absent THEN data[o] ELSE reported[o]]

\* fetchOrders' then, had it dropped the response of a superseded request
FetchOrdersOkCurrent(m) ==
    /\ m.kind = "list" /\ m.phase = "ok"
    /\ orders' = IF m.tab = activeTab THEN m.data ELSE orders
    /\ loading' = FALSE
    /\ net' = Take(net, m)
    /\ reported' = ReportList(m.data)
    /\ UNCHANGED <<ordersCopy, srvStatus, activeTab, updatingId, error,
                   selectedOrder, nActions>>

\* fetchOrders: .then((res) => setOrders(res.data)).finally(...)
FetchOrdersOk(m) ==
    /\ m.kind = "list" /\ m.phase = "ok"
    /\ orders' = m.data
    /\ loading' = FALSE
    /\ net' = Take(net, m)
    /\ reported' = ReportList(m.data)
    /\ UNCHANGED <<ordersCopy, srvStatus, activeTab, updatingId, error,
                   selectedOrder, nActions>>

\* what fetchOrders' catch leaves in the banner
FetchOrdersCatch == IF ordersCopy = "detail" THEN ListError ELSE error

\* fetchOrders: .catch(...).finally(() => setLoading(false))
FetchOrdersFail(m) ==
    /\ m.kind = "list" /\ m.phase = "fail"
    /\ error' = FetchOrdersCatch
    /\ loading' = FALSE
    /\ net' = Take(net, m)
    /\ UNCHANGED <<ordersCopy, srvStatus, orders, activeTab, updatingId,
                   selectedOrder, reported, nActions>>

\* if (selectedOrder?.id === orderId), on the closure's selectedOrder
RefreshesModal(m) == ordersCopy = "detail" /\ m.csel = m.id

\* handleStatusChange after the PUT resolved: fetchOrders(activeTab) with the
\* closure's activeTab, then either the GET of the order or the finally block
StatusChangeOk(m) ==
    /\ m.kind = "put" /\ m.phase = "ok"
    /\ loading' = TRUE
    /\ error' = FetchOrdersError
    /\ reported' = [reported EXCEPT ![m.id] = m.target]
    /\ IF RefreshesModal(m)
       THEN /\ net' = Put(Put(Take(net, m), ListRequest(m.ctab)), DetailRequest(m))
            /\ UNCHANGED updatingId
       ELSE /\ net' = Put(Take(net, m), ListRequest(m.ctab))
            /\ updatingId' = NoId
    /\ UNCHANGED <<ordersCopy, srvStatus, orders, activeTab, selectedOrder,
                   nActions>>

\* err.response?.data?.error || `...#${orderId}` in the first component,
\* the fixed string in the second
StatusChangeCatch(m) ==
    IF ordersCopy = "detail" /\ m.body # NoBody
    THEN ServerError(m.body)
    ELSE StatusError(m.id)

\* a catch that reloads the list and leaves the control disabled
StatusChangeFailReload(m) ==
    /\ m.kind = "put" /\ m.phase = "fail"
    /\ error' = StatusChangeCatch(m)
    /\ loading' = TRUE
    /\ net' = Put(Take(net, m), ListRequest(m.ctab))
    /\ UNCHANGED <<ordersCopy, srvStatus, orders, activeTab, updatingId,
                   selectedOrder, reported, nActions>>

\* handleStatusChange: catch and finally, the PUT having failed
StatusChangeFail(m) ==
    /\ m.kind = "put" /\ m.phase = "fail"
    /\ error' = StatusChangeCatch(m)
    /\ updatingId' = NoId
    /\ net' = Take(net, m)
    /\ UNCHANGED <<ordersCopy, srvStatus, orders, loading, activeTab,
                   selectedOrder, reported, nActions>>

\* setSelectedOrder(data), then finally
OrderRefreshOk(m) ==
    /\ m.kind = "detail" /\ m.phase = "ok"
    /\ selectedOrder' = [id |-> m.id, status |-> m.got]
    /\ reported' = [reported EXCEPT ![m.id] = m.got]
    /\ updatingId' = NoId
    /\ net' = Take(net, m)
    /\ UNCHANGED <<ordersCopy, srvStatus, orders, loading, activeTab, error,
                   nActions>>

\* setSelectedOrder((prev) => prev ? { ...prev, status: newStatus } : null)
PatchSelected(prev, newStatus) ==
    IF prev # NoOrder THEN [prev EXCEPT !.status = newStatus] ELSE NoOrder

\* the inner catch, then finally
OrderRefreshFail(m) ==
    /\ m.kind = "detail" /\ m.phase = "fail"
    /\ selectedOrder' = PatchSelected(selectedOrder, m.target)
    /\ updatingId' = NoId
    /\ net' = Take(net, m)
    /\ UNCHANGED <<ordersCopy, srvStatus, orders, loading, activeTab, error,
                   reported, nActions>>

---------------------------------------------------------------------------
(* Loyalty view: data *)

\* the users of the run
UserIds == {1, 2}

\* selectedUser = null
NoUser == [id |-> 0, bonusPoints |-> 0]

\* the values of the error state (Loyalty.tsx:26, 58, 76, 113)
NoText == ""
UsersError == "Oshibka zagruzki polzovatelej"
HistoryError == "Oshibka zagruzki istorii"
AdjustError == "Oshibka korrektirovki ballov"

\* the message of a server that rejects an adjustment (response body {message})
InsufficientPoints == "Insufficient points"

\* what the user types into the amount field and into the description field
TypedAmounts == {<<"5">>}
TypedDescriptions == {<<" ", "g">>}

\* the users whose balance somebody else changes during the run
Earners == {1}

\* value of a decimal digit
DigitValue ==
    [c \in {"0", "1", "2", "3", "4", "5", "6", "7", "8", "9"} |->
        CASE c = "0" -> 0 [] c = "1" -> 1 [] c = "2" -> 2 [] c = "3" -> 3
          [] c = "4" -> 4 [] c = "5" -> 5 [] c = "6" -> 6 [] c = "7" -> 7
          [] c = "8" -> 8 [] c = "9" -> 9]

RECURSIVE Digits(_)
\* the number a string of digits denotes
Digits(s) ==
    IF s = <<>> THEN 0
    ELSE Digits(SubSeq(s, 1, Len(s) - 1)) * 10 + DigitValue[s[Len(s)]]

\* all characters of s are digits
AllDigits(s) == \A i \in DOMAIN s : s[i] \in DOMAIN DigitValue

\* prev.startsWith('-')
StartsWithMinus(s) == s # <<>> /\ s[1] = "-"

\* Number(s) of JavaScript is NaN for a string that is not a number
NaN == "NaN"

\* the string is a number: digits with an optional leading minus
IsNumeric(s) ==
    \/ s # <<>> /\ AllDigits(s)
    \/ StartsWithMinus(s) /\ Len(s) > 1 /\ AllDigits(Tail(s))

\* JavaScript Number(adjustAmount): the empty string is 0
Number(s) ==
    IF s = <<>> THEN 0
    ELSE IF ~IsNumeric(s) THEN NaN
    ELSE IF StartsWithMinus(s) THEN 0 - Digits(Tail(s))
    ELSE Digits(s)

\* <input type="number" value={adjustAmount}>: the field holds the string only
\* when it is a valid number, otherwise it is empty
FieldValue(s) == IF IsNumeric(s) THEN s ELSE <<>>

\* <input required>: the form is submitted only with a filled field
Required(s) == FieldValue(s) # <<>>

RECURSIVE TrimStart(_)
TrimStart(s) == IF s # <<>> /\ s[1] = " " THEN TrimStart(Tail(s)) ELSE s

RECURSIVE TrimEnd(_)
TrimEnd(s) ==
    IF s # <<>> /\ s[Len(s)] = " " THEN TrimEnd(SubSeq(s, 1, Len(s) - 1)) ELSE s

\* adjustDescription.trim() || undefined (the empty sequence stands for undefined)
SentDescription(s) == TrimEnd(TrimStart(s))

\* the server's balances before the run
InitialPoints == [u \in UserIds |-> IF u = 1 THEN 5 ELSE 0]

\* the server's ledgers before the run
InitialLedger == [u \in UserIds |-> IF u = 1 THEN <<5>> ELSE <<>>]

\* a request of the Loyalty view in flight: kind is "users" (GET /loyalty),
\* "history" (GET /loyalty/{id}) or "adjust" (POST /loyalty/{id}/adjust);
\* why is the handler that sent it; id and text are selectedUser.id and
\* adjustAmount of the handler's closure; amount and description are the body
\* sent; list, ledger and body are the response.  fetchedOk, fetched, before
\* and ledgerBefore are history: the balance handleAdjust's fetchUsers got for
\* the user, and the server's balance and ledger before the adjustment.
NoCall ==
    [kind |-> "none", phase |-> "none", why |-> "none", id |-> 0, text |-> <<>>,
     amount |-> 0, description |-> <<>>, list |-> InitialPoints, ledger |-> <<>>,
     body |-> "nobody", fetchedOk |-> FALSE, fetched |-> 0, before |-> 0,
     ledgerBefore |-> <<>>, n |-> 1]

\* api.get('/loyalty')
UsersRequest(why) == [NoCall EXCEPT !.kind = "users", !.phase = "req", !.why = why]

\* api.get(`/loyalty/${user.id}`)
HistoryRequest(id) ==
    [NoCall EXCEPT !.kind = "history", !.phase = "req", !.why = "open", !.id = id]

\* api.post(`/loyalty/${selectedUser.id}/adjust`, {amount, description})
AdjustRequest ==
    [NoCall EXCEPT !.kind = "adjust", !.phase = "req", !.why = "adjust",
                   !.id = selectedUser.id, !.text = adjustAmount,
                   !.amount = Number(adjustAmount),
                   !.description = SentDescription(adjustDescription)]

\* the list fetchUsers builds from the response
UserList(data) == [i \in 1..Cardinality(UserIds) |-> [id |-> i, bonusPoints |-> data[i]]]

\* if (loading) return <spinner>
ViewShown == ~loyaltyLoading

\* {selectedUser && <modal>}
UserModalOpen == selectedUser # NoUser

\* the adjust form is rendered
FormShown == ViewShown /\ UserModalOpen /\ showAdjust

---------------------------------------------------------------------------
(* Loyalty view: initial state *)

\* the state of the component before it is mounted
LoyaltyState ==
    /\ srvPoints = InitialPoints
    /\ srvLedger = InitialLedger
    /\ users = <<>>
    /\ loyaltyLoading = TRUE
    /\ loyaltyError = NoText
    /\ selectedUser = NoUser
    /\ history = <<>>
    /\ historyLoading = FALSE
    /\ showAdjust = FALSE
    /\ adjustAmount = <<>>
    /\ adjustDescription = <<>>
    /\ adjusting = FALSE
    /\ nClicks = 0
    /\ nEarned = 0

LoyaltyUnmounted == LoyaltyState /\ calls = {}

\* useEffect(() => { fetchUsers(); }, [])
LoyaltyInit == LoyaltyState /\ calls = {UsersRequest("mount")}

---------------------------------------------------------------------------
(* Loyalty view: handlers *)

\* openUserHistory(user), up to its await
OpenUserHistory(i) ==
    /\ ViewShown
    /\ ~UserModalOpen
    /\ i \in DOMAIN users
    /\ nClicks < MaxClicks
    /\ nClicks' = nClicks + 1
    /\ selectedUser' = users[i]
    /\ historyLoading' = TRUE
    /\ history' = <<>>
    /\ showAdjust' = FALSE
    /\ adjustAmount' = <<>>
    /\ adjustDescription' = <<>>
    /\ calls' = Put(calls, HistoryRequest(users[i].id))
    /\ UNCHANGED <<srvPoints, srvLedger, users, loyaltyLoading, loyaltyError,
                   adjusting, nEarned>>

\* closeModal
CloseModal ==
    /\ ViewShown
    /\ UserModalOpen
    /\ selectedUser' = NoUser
    /\ history' = <<>>
    /\ showAdjust' = FALSE
    /\ UNCHANGED <<srvPoints, srvLedger, users, loyaltyLoading, loyaltyError,
                   historyLoading, adjustAmount, adjustDescription, adjusting,
                   calls, nClicks, nEarned>>

\* the button that opens the adjust form: setShowAdjust(true)
OpenAdjustForm ==
    /\ ViewShown
    /\ UserModalOpen
    /\ ~showAdjust
    /\ showAdjust' = TRUE
    /\ UNCHANGED <<srvPoints, srvLedger, users, loyaltyLoading, loyaltyError,
                   selectedUser, history, historyLoading, adjustAmount,
                   adjustDescription, adjusting, calls, nClicks, nEarned>>

\* the Cancel button of the form: setShowAdjust(false)
CancelAdjust ==
    /\ FormShown
    /\ showAdjust' = FALSE
    /\ UNCHANGED <<srvPoints, srvLedger, users, loyaltyLoading, loyaltyError,
                   selectedUser, history, historyLoading, adjustAmount,
                   adjustDescription, adjusting, calls, nClicks, nEarned>>

\* onChange of the amount field: setAdjustAmount(e.target.value)
TypeAmount(v) ==
    /\ FormShown
    /\ v # FieldValue(adjustAmount)
    /\ adjustAmount' = v
    /\ UNCHANGED <<srvPoints, srvLedger, users, loyaltyLoading, loyaltyError,
                   selectedUser, history, historyLoading, showAdjust,
                   adjustDescription, adjusting, calls, nClicks, nEarned>>

\* the Plus button: prev.startsWith('-') ? prev.slice(1) : prev
PlusClick ==
    /\ FormShown
    /\ adjustAmount' = IF StartsWithMinus(adjustAmount) THEN Tail(adjustAmount)
                       ELSE adjustAmount
    /\ UNCHANGED <<srvPoints, srvLedger, users, loyaltyLoading, loyaltyError,
                   selectedUser, history, historyLoading, showAdjust,
                   adjustDescription, adjusting, calls, nClicks, nEarned>>

\* the Minus button: prev.startsWith('-') ? prev : `-${prev}`
MinusClick ==
    /\ FormShown
    /\ adjustAmount' = IF StartsWithMinus(adjustAmount) THEN adjustAmount
                       ELSE <<"-">> \o adjustAmount
    /\ UNCHANGED <<srvPoints, srvLedger, users, loyaltyLoading, loyaltyError,
                   selectedUser, history, historyLoading, showAdjust,
                   adjustDescription, adjusting, calls, nClicks, nEarned>>

\* onChange of the description field
TypeDescription(d) ==
    /\ FormShown
    /\ d # adjustDescription
    /\ adjustDescription' = d
    /\ UNCHANGED <<srvPoints, srvLedger, users, loyaltyLoading, loyaltyError,
                   selectedUser, history, historyLoading, showAdjust,
                   adjustAmount, adjusting, calls, nClicks, nEarned>>

\* a handleAdjust with a floor: it refuses a debit that exceeds the balance
HandleAdjustFloor ==
    /\ Required(adjustAmount)
    /\ ~(~UserModalOpen \/ adjustAmount = <<>>)
    /\ selectedUser.bonusPoints + Number(adjustAmount) >= 0

\* a submit reaches the POST: the browser validates the required number field,
\* then handleAdjust returns early on  !selectedUser || !adjustAmount
HandleAdjustSends ==
    /\ Required(adjustAmount)
    /\ ~(~UserModalOpen \/ adjustAmount = <<>>)

\* the submit button (disabled while adjusting): handleAdjust up to its first await
SubmitAdjust ==
    /\ FormShown
    /\ ~adjusting
    /\ nClicks < MaxClicks
    /\ nClicks' = nClicks + 1
    /\ IF HandleAdjustSends
       THEN /\ adjusting' = TRUE
            /\ loyaltyError' = NoText
            /\ calls' = Put(calls, AdjustRequest)
       ELSE UNCHANGED <<adjusting, loyaltyError, calls>>
    /\ UNCHANGED <<srvPoints, srvLedger, users, loyaltyLoading, selectedUser,
                   history, historyLoading, showAdjust, adjustAmount,
                   adjustDescription, nEarned>>

---------------------------------------------------------------------------
(* Loyalty view: the server *)

\* the request m is answered by r
Answer(m, r) == Put(Take(calls, m), r)

\* a request fails without reaching the server (no response body)
LoyaltyUnreachable(m) ==
    /\ m.phase = "req"
    /\ calls' = Answer(m, [m EXCEPT !.phase = "fail", !.body = "nobody", !.n = 1])
    /\ UNCHANGED <<srvPoints, srvLedger, users, loyaltyLoading, loyaltyError,
                   selectedUser, history, historyLoading, showAdjust, adjustAmount,
                   adjustDescription, adjusting, nClicks, nEarned>>

\* GET /loyalty
ServerGetLoyalty(m) ==
    /\ m.kind = "users" /\ m.phase = "req"
    /\ calls' = Answer(m, [m EXCEPT !.phase = "ok", !.list = srvPoints, !.n = 1])
    /\ UNCHANGED <<srvPoints, srvLedger, users, loyaltyLoading, loyaltyError,
                   selectedUser, history, historyLoading, showAdjust, adjustAmount,
                   adjustDescription, adjusting, nClicks, nEarned>>

\* GET /loyalty/{id}
ServerGetHistory(m) ==
    /\ m.kind = "history" /\ m.phase = "req"
    /\ calls' = Answer(m, [m EXCEPT !.phase = "ok", !.ledger = srvLedger[m.id], !.n = 1])
    /\ UNCHANGED <<srvPoints, srvLedger, users, loyaltyLoading, loyaltyError,
                   selectedUser, history, historyLoading, showAdjust, adjustAmount,
                   adjustDescription, adjusting, nClicks, nEarned>>

\* POST /loyalty/{id}/adjust: the server adds the amount and appends one ledger
\* entry; it rejects a debit that exceeds the balance
ServerPostAdjust(m) ==
    /\ m.kind = "adjust" /\ m.phase = "req"
    /\ IF srvPoints[m.id] + m.amount >= 0
       THEN /\ srvPoints' = [srvPoints EXCEPT ![m.id] = @ + m.amount]
            /\ srvLedger' = [srvLedger EXCEPT ![m.id] = Append(@, m.amount)]
            /\ calls' = Answer(m, [m EXCEPT !.phase = "ok", !.n = 1,
                                            !.before = srvPoints[m.id],
                                            !.ledgerBefore = srvLedger[m.id]])
       ELSE /\ calls' = Answer(m, [m EXCEPT !.phase = "fail", !.n = 1,
                                            !.body = InsufficientPoints])
            /\ UNCHANGED <<srvPoints, srvLedger>>
    /\ UNCHANGED <<users, loyaltyLoading, loyaltyError, selectedUser, history,
                   historyLoading, showAdjust, adjustAmount, adjustDescription,
                   adjusting, nClicks, nEarned>>

\* somebody else changes a balance between two requests of the view: a
\* completed order credits bonus points
ServerEarn(u) ==
    /\ nEarned < MaxEarned
    /\ calls = {}
    /\ nEarned' = nEarned + 1
    /\ srvPoints' = [srvPoints EXCEPT ![u] = @ + 2]
    /\ srvLedger' = [srvLedger EXCEPT ![u] = Append(@, 2)]
    /\ UNCHANGED <<users, loyaltyLoading, loyaltyError, selectedUser, history,
                   historyLoading, showAdjust, adjustAmount, adjustDescription,
                   adjusting, calls, nClicks>>

---------------------------------------------------------------------------
(* Loyalty view: the handlers after their awaits *)

\* what follows `await fetchUsers()`: the GET /loyalty/{id} of handleAdjust
AfterFetchUsers(m, ok) ==
    IF m.why = "adjust"
    THEN Put(Take(calls, m),
             [m EXCEPT !.kind = "history", !.phase = "req", !.n = 1,
                       !.fetchedOk = ok,
                       !.fetched = IF ok THEN m.list[m.id] ELSE 0])
    ELSE Take(calls, m)

\* fetchUsers: the response arrived
FetchUsersOk(m) ==
    /\ m.kind = "users" /\ m.phase = "ok"
    /\ users' = UserList(m.list)
    /\ loyaltyLoading' = FALSE
    /\ calls' = AfterFetchUsers(m, TRUE)
    /\ UNCHANGED <<srvPoints, srvLedger, loyaltyError, selectedUser, history,
                   historyLoading, showAdjust, adjustAmount, adjustDescription,
                   adjusting, nClicks, nEarned>>

\* fetchUsers: catch and finally
FetchUsersFail(m) ==
    /\ m.kind = "users" /\ m.phase = "fail"
    /\ loyaltyError' = UsersError
    /\ loyaltyLoading' = FALSE
    /\ calls' = AfterFetchUsers(m, FALSE)
    /\ UNCHANGED <<srvPoints, srvLedger, users, selectedUser, history,
                   historyLoading, showAdjust, adjustAmount, adjustDescription,
                   adjusting, nClicks, nEarned>>

\* openUserHistory: the response arrived
UserHistoryOk(m) ==
    /\ m.kind = "history" /\ m.phase = "ok" /\ m.why = "open"
    /\ history' = m.ledger
    /\ historyLoading' = FALSE
    /\ calls' = Take(calls, m)
    /\ UNCHANGED <<srvPoints, srvLedger, users, loyaltyLoading, loyaltyError,
                   selectedUser, showAdjust, adjustAmount, adjustDescription,
                   adjusting, nClicks, nEarned>>

\* openUserHistory: catch and finally
UserHistoryFail(m) ==
    /\ m.kind = "history" /\ m.phase = "fail" /\ m.why = "open"
    /\ loyaltyError' = HistoryError
    /\ historyLoading' = FALSE
    /\ calls' = Take(calls, m)
    /\ UNCHANGED <<srvPoints, srvLedger, users, loyaltyLoading, selectedUser,
                   history, showAdjust, adjustAmount, adjustDescription,
                   adjusting, nClicks, nEarned>>

\* handleAdjust: the POST succeeded, fetchUsers() is called
AdjustPosted(m) ==
    /\ m.kind = "adjust" /\ m.phase = "ok"
    /\ calls' = Put(Take(calls, m), [m EXCEPT !.kind = "users", !.phase = "req", !.n = 1])
    /\ UNCHANGED <<srvPoints, srvLedger, users, loyaltyLoading, loyaltyError,
                   selectedUser, history, historyLoading, showAdjust, adjustAmount,
                   adjustDescription, adjusting, nClicks, nEarned>>

\* err.response?.data?.message || 'Ошибка корректировки баллов'
AdjustCatch(m) == IF m.body # "nobody" THEN m.body ELSE AdjustError

\* handleAdjust: the POST failed (catch and finally)
AdjustFail(m) ==
    /\ m.kind = "adjust" /\ m.phase = "fail"
    /\ loyaltyError' = AdjustCatch(m)
    /\ adjusting' = FALSE
    /\ calls' = Take(calls, m)
    /\ UNCHANGED <<srvPoints, srvLedger, users, loyaltyLoading, selectedUser,
                   history, historyLoading, showAdjust, adjustAmount,
                   adjustDescription, nClicks, nEarned>>

\* setSelectedUser(prev => prev ? {...prev, bonusPoints: prev.bonusPoints + Number(adjustAmount)} : null)
AddPoints(prev, text) ==
    IF prev # NoUser THEN [prev EXCEPT !.bonusPoints = @ + Number(text)] ELSE NoUser

\* handleAdjust: the history arrived; the rest of the try block and finally
AdjustDone(m) ==
    /\ m.kind = "history" /\ m.phase = "ok" /\ m.why = "adjust"
    /\ history' = m.ledger
    /\ selectedUser' = AddPoints(selectedUser, m.text)
    /\ adjustAmount' = <<>>
    /\ adjustDescription' = <<>>
    /\ showAdjust' = FALSE
    /\ adjusting' = FALSE
    /\ calls' = Take(calls, m)
    /\ UNCHANGED <<srvPoints, srvLedger, users, loyaltyLoading, loyaltyError,
                   historyLoading, nClicks, nEarned>>

\* handleAdjust: the history request failed (catch and finally)
AdjustHistoryFail(m) ==
    /\ m.kind = "history" /\ m.phase = "fail" /\ m.why = "adjust"
    /\ loyaltyError' = AdjustCatch(m)
    /\ adjusting' = FALSE
    /\ calls' = Take(calls, m)
    /\ UNCHANGED <<srvPoints, srvLedger, users, loyaltyLoading, selectedUser,
                   history, historyLoading, showAdjust, adjustAmount,
                   adjustDescription, nClicks, nEarned>>

---------------------------------------------------------------------------
(* App shell and Login: data *)

\* localStorage.getItem('rosa_admin_token') === null
NoToken == "none"

\* the tokens: one the server accepts, one it does not (expired or forged)
Tokens == {"valid", "expired"}

\* the three values of isAuth: null while the check is pending
AuthUnknown == "null"
AuthYes == "true"
AuthNo == "false"

\* a path is its sequence of segments: <<>> is "/"
LoginPath == <<"login">>
HomePath == <<>>

\* the locations of a run: the routed ones and one no route matches
Paths ==
    {HomePath, LoginPath, <<"orders">>, <<"loyalty">>, <<"bouquets", "7">>,
     <<"constructor">>}

\* the values of Login's error state
LoginFailed == "Oshibka vhoda. Proverte login i parol."
BadCredentials == "Invalid credentials"

\* the route table of the authenticated branch (part_000:128-140)
ProtectedView(p) ==
    CASE p = <<>> -> "Dashboard"
      [] p = <<"bouquets">> -> "Bouquets"
      [] p = <<"bouquets", "new">> -> "BouquetForm"
      [] Len(p) = 2 /\ p[1] = "bouquets" /\ p # <<"bouquets", "new">> -> "BouquetForm"
      [] p = <<"users">> -> "Users"
      [] p = <<"orders">> -> "Orders"
      [] p = <<"loyalty">> -> "Loyalty"
      [] p = <<"analytics">> -> "Analytics"
      [] p = <<"settings">> -> "Settings"
      [] p = <<"broadcast">> -> "Broadcast"
      [] OTHER -> "Navigate"

\* the views of the authenticated route table
ProtectedViews ==
    {"Dashboard", "Bouquets", "BouquetForm", "Users", "Orders", "Loyalty",
     "Analytics", "Settings", "Broadcast"}

\* a rendering that consults the route table before the flag is known
RenderEarly(auth, p) ==
    IF auth = AuthNo THEN (IF p = LoginPath THEN "Login" ELSE "Navigate")
    ELSE ProtectedView(p)

\* what App renders for a value of isAuth at a location (part_000:104-143)
Render(auth, p) ==
    IF auth = AuthUnknown THEN "Spinner"
    ELSE IF auth = AuthNo THEN (IF p = LoginPath THEN "Login" ELSE "Navigate")
    ELSE ProtectedView(p)

\* the location after the <Navigate> elements of the rendering have acted
Lands(auth, p) ==
    IF auth = AuthUnknown THEN p
    ELSE IF auth = AuthNo THEN (IF Render(auth, p) = "Navigate" THEN LoginPath ELSE p)
    ELSE (IF Render(auth, p) = "Navigate" THEN HomePath ELSE p)

\* what is on the screen
Screen == Render(isAuth, path)

\* a request of App or Login in flight: kind is "me" (GET /auth/me) or "login"
\* (POST /auth/login); bearer is the stored token the client attaches; good
\* tells whether the credentials typed are right; mount is the Login instance
\* that sent the request
NoWire ==
    [kind |-> "none", phase |-> "none", bearer |-> "none", good |-> FALSE,
     mount |-> 0, issued |-> "none", body |-> "nobody", n |-> 1]

\* api.get('/auth/me')
MeRequest == [NoWire EXCEPT !.kind = "me", !.phase = "req", !.bearer = token]

\* api.post('/auth/login', {login, password})
LoginRequest(good) ==
    [NoWire EXCEPT !.kind = "login", !.phase = "req", !.good = good,
                   !.mount = loginMount]

---------------------------------------------------------------------------
(* App shell and Login: initial state *)

\* the page before App's effect has run
AppState ==
    /\ isAuth = AuthUnknown
    /\ mounted = FALSE
    /\ loginLoading = FALSE
    /\ loginError = NoText
    /\ loginMount = 0
    /\ wire = {}
    /\ nAuthMe = 0
    /\ nSteps = 0

AppUnmounted == AppState /\ token = NoToken /\ path = HomePath

\* the page is loaded at any location, with or without a stored token
AppInit == AppState /\ token \in Tokens \cup {NoToken} /\ path \in Paths

---------------------------------------------------------------------------
(* App shell and Login: handlers *)

\* the state of Login when it is mounted anew
FreshLogin ==
    /\ loginLoading' = FALSE
    /\ loginError' = NoText
    /\ loginMount' = loginMount + 1

\* Login is unmounted and mounted again when the rendering leaves it
RemountLogin(wasLogin) ==
    IF wasLogin THEN FreshLogin ELSE UNCHANGED <<loginLoading, loginError, loginMount>>

\* useEffect(() => {...}, []) of App: the authentication check
AuthCheck ==
    /\ ~mounted
    /\ mounted' = TRUE
    /\ IF token = NoToken
       THEN /\ isAuth' = AuthNo
            /\ path' = Lands(AuthNo, path)
            /\ UNCHANGED <<wire, nAuthMe>>
       ELSE /\ wire' = Put(wire, MeRequest)
            /\ nAuthMe' = nAuthMe + 1
            /\ UNCHANGED <<isAuth, path>>
    /\ UNCHANGED <<token, loginLoading, loginError, loginMount, nSteps>>

\* .then(() => setIsAuth(true))
AuthMeOk(m) ==
    /\ m.kind = "me" /\ m.phase = "ok"
    /\ isAuth' = AuthYes
    /\ path' = Lands(AuthYes, path)
    /\ wire' = Take(wire, m)
    /\ UNCHANGED <<token, mounted, loginLoading, loginError, loginMount, nAuthMe, nSteps>>

\* a catch that leaves the token in local storage
AuthMeFailKeepsToken(m) ==
    /\ m.kind = "me" /\ m.phase = "fail"
    /\ isAuth' = AuthNo
    /\ path' = Lands(AuthNo, path)
    /\ wire' = Take(wire, m)
    /\ UNCHANGED <<token, mounted, loginLoading, loginError, loginMount, nAuthMe, nSteps>>

\* .catch(() => { localStorage.removeItem('rosa_admin_token'); setIsAuth(false); })
AuthMeFail(m) ==
    /\ m.kind = "me" /\ m.phase = "fail"
    /\ token' = NoToken
    /\ isAuth' = AuthNo
    /\ path' = Lands(AuthNo, path)
    /\ wire' = Take(wire, m)
    /\ UNCHANGED <<mounted, loginLoading, loginError, loginMount, nAuthMe, nSteps>>

\* the location changes: a sidebar button, or the browser's back and forward
GoTo(p) ==
    /\ mounted
    /\ p # path
    /\ nSteps < MaxSteps
    /\ nSteps' = nSteps + 1
    /\ path' = Lands(isAuth, p)
    /\ RemountLogin(Screen = "Login" /\ Render(isAuth, p) # "Login")
    /\ UNCHANGED <<token, isAuth, mounted, wire, nAuthMe>>

\* onLogout of the sidebar
Logout ==
    /\ isAuth = AuthYes
    /\ nSteps < MaxSteps
    /\ nSteps' = nSteps + 1
    /\ token' = NoToken
    /\ isAuth' = AuthNo
    /\ path' = Lands(AuthNo, path)
    /\ UNCHANGED <<mounted, loginLoading, loginError, loginMount, wire, nAuthMe>>

\* handleSubmit of Login, up to its await (the button is disabled while loading)
LoginSubmit(good) ==
    /\ Screen = "Login"
    /\ ~loginLoading
    /\ nSteps < MaxSteps
    /\ nSteps' = nSteps + 1
    /\ loginError' = NoText
    /\ loginLoading' = TRUE
    /\ wire' = Put(wire, LoginRequest(good))
    /\ UNCHANGED <<token, isAuth, path, mounted, loginMount, nAuthMe>>

\* a handleSubmit that calls onLogin() without storing the token
LoginOkFlagOnly(m) ==
    /\ m.kind = "login" /\ m.phase = "ok"
    /\ isAuth' = AuthYes
    /\ path' = Lands(AuthYes, path)
    /\ RemountLogin(Screen = "Login")
    /\ wire' = Take(wire, m)
    /\ UNCHANGED <<token, mounted, nAuthMe, nSteps>>

\* handleSubmit: the token is stored, onLogin() sets the flag; Login is unmounted
LoginOk(m) ==
    /\ m.kind = "login" /\ m.phase = "ok"
    /\ token' = m.issued
    /\ isAuth' = AuthYes
    /\ path' = Lands(AuthYes, path)
    /\ RemountLogin(Screen = "Login")
    /\ wire' = Take(wire, m)
    /\ UNCHANGED <<mounted, nAuthMe, nSteps>>

\* err.response?.data?.error || err.response?.data?.message || the generic text
LoginCatch(m) == IF m.body # "nobody" THEN m.body ELSE LoginFailed

\* handleSubmit: catch and finally; the setters of an unmounted Login do nothing
LoginFail(m) ==
    /\ m.kind = "login" /\ m.phase = "fail"
    /\ IF Screen = "Login" /\ m.mount = loginMount
       THEN /\ loginError' = LoginCatch(m)
            /\ loginLoading' = FALSE
       ELSE UNCHANGED <<loginError, loginLoading>>
    /\ wire' = Take(wire, m)
    /\ UNCHANGED <<token, isAuth, path, mounted, loginMount, nAuthMe, nSteps>>

---------------------------------------------------------------------------
(* App shell and Login: the server *)

\* GET /auth/me: the server accepts only a valid bearer token
ServerAuthMe(m) ==
    /\ m.kind = "me" /\ m.phase = "req"
    /\ wire' = Put(Take(wire, m),
                   [m EXCEPT !.phase = IF m.bearer = "valid" THEN "ok" ELSE "fail",
                             !.body = IF m.bearer = "valid" THEN "nobody" ELSE "Unauthorized",
                             !.n = 1])
    /\ UNCHANGED <<token, isAuth, path, mounted, loginLoading, loginError,
                   loginMount, nAuthMe, nSteps>>

\* POST /auth/login: the server issues a token for the right credentials
ServerLogin(m) ==
    /\ m.kind = "login" /\ m.phase = "req"
    /\ wire' = Put(Take(wire, m),
                   IF m.good THEN [m EXCEPT !.phase = "ok", !.issued = "valid", !.n = 1]
                   ELSE [m EXCEPT !.phase = "fail", !.body = BadCredentials, !.n = 1])
    /\ UNCHANGED <<token, isAuth, path, mounted, loginLoading, loginError,
                   loginMount, nAuthMe, nSteps>>

\* a request fails without reaching the server (no response body)
AuthUnreachable(m) ==
    /\ m.phase = "req"
    /\ wire' = Put(Take(wire, m), [m EXCEPT !.phase = "fail", !.body = "nobody", !.n = 1])
    /\ UNCHANGED <<token, isAuth, path, mounted, loginLoading, loginError,
                   loginMount, nAuthMe, nSteps>>

---------------------------------------------------------------------------
(* Catalog views (Bouquets, ConstructorManager): data *)

BouquetIds == {1, 2}

\* the three switches of a bouquet row
BouquetFlags == {"inStock", "isHit", "isNew"}

\* GET /bouquets when the view is mounted
InitialBouquets ==
    <<[id |-> 1, name |-> "roza", inStock |-> TRUE, isHit |-> FALSE, isNew |-> FALSE],
      [id |-> 2, name |-> "pion", inStock |-> FALSE, isHit |-> TRUE, isNew |-> FALSE]>>

\* TABS: the keys of the three constructor lists
TabKeys == {"flowers", "greenery", "packaging"}

\* inStock?: boolean of a constructor item: "true", "false" or Undefined
StockValues == {"true", "false", Undefined}

NoItem == [id |-> 0, name |-> <<>>, price |-> 0, inStock |-> Undefined]

EmptyData == [t \in TabKeys |-> <<>>]

\* GET /constructor when the view is mounted: the same id occurs in two
\* tabs, and one item carries no inStock
InitialData ==
    [t \in TabKeys |->
        CASE t = "flowers" ->
                <<[id |-> 1, name |-> <<"r">>, price |-> 9, inStock |-> Undefined],
                  [id |-> 2, name |-> <<"p">>, price |-> 7, inStock |-> "false"]>>
          [] t = "greenery" ->
                <<[id |-> 1, name |-> <<"f">>, price |-> 3, inStock |-> "true"]>>
          [] OTHER -> <<>>]

\* what the admin types into the add form
TypedNames == {<<"m">>, <<" ">>}
TypedPrices == {<<"4">>}

\* the inStock the server gives an item created from { name, price }
CreatedStock == {"true", Undefined}

DataError == "Oshibka zagruzki dannyh konstruktora"
AddError == "Oshibka dobavleniya"
DeleteError == "Oshibka udaleniya"
CatalogMessages == {"Forbidden"}

\* s.trim()
Trim(s) == TrimEnd(TrimStart(s))

\* !item.inStock
NotStock(v) == IF v = "true" THEN "false" ELSE "true"

\* item.inStock !== false: the position of the constructor's stock switch
StockShown(item) == item.inStock # "false"

\* item.id || item._id
ItemKey(item) == item.id

\* the position of a bouquet's switch: b.inStock, b.isHit, b.isNew
FlagShown(b, field) == b[field]

\* prev.map((b) => (b.id === id ? { ...b, [field]: value } and every other
\* bouquet too: the id test is left out
PatchBouquetsAll(prev, id, field, value) ==
    [i \in DOMAIN prev |-> [prev[i] EXCEPT ![field] = value]]

\* prev.map((b) => (b.id === id ? { ...b, [field]: value } : b))
PatchBouquets(prev, id, field, value) ==
    [i \in DOMAIN prev |->
        IF prev[i].id = id THEN [prev[i] EXCEPT ![field] = value] ELSE prev[i]]

\* list.map((i) => (i.id || i._id) === itemId ? { ...i, inStock: newVal } : i)
PatchItems(list, itemId, newVal) ==
    [i \in DOMAIN list |->
        IF ItemKey(list[i]) = itemId THEN [list[i] EXCEPT !.inStock = newVal]
        ELSE list[i]]

\* ({ ...prev, [activeTab]: prev[activeTab].map(...) })
PatchStock(prev, tab, itemId, newVal) ==
    [prev EXCEPT ![tab] = PatchItems(prev[tab], itemId, newVal)]

\* list.filter(keep)
RECURSIVE Without(_, _)
Without(list, itemId) ==
    IF list = <<>> THEN <<>>
    ELSE IF list[1].id = itemId THEN Without(Tail(list), itemId)
    ELSE <<list[1]>> \o Without(Tail(list), itemId)

\* ({ ...prev, [activeTab]: prev[activeTab].filter((i) => (i.id || i._id) !== itemId) })
RemoveItem(prev, tab, itemId) == [prev EXCEPT ![tab] = Without(prev[tab], itemId)]

\* ({ ...prev, [activeTab]: [...prev[activeTab], created] })
AppendItem(prev, tab, created) == [prev EXCEPT ![tab] = Append(prev[tab], created)]

Has(list, id) == \E i \in DOMAIN list : list[i].id = id

Find(list, id) == list[CHOOSE i \in DOMAIN list : list[i].id = id]

\* the keys of the rows of a list
Keys(list) == {ItemKey(list[i]) : i \in DOMAIN list}

\* the id the server gives a new item of a list: one it has not given yet
FreshId(list) ==
    1 + (CHOOSE k \in Keys(list) \cup {2} : \A j \in Keys(list) \cup {2} : j <= k)

\* A request of a catalog view in flight
Cargo == [kind |-> "none", phase |-> "none", id |-> 0, field |-> "none",
          value |-> FALSE, shown |-> FALSE, tab |-> "none", name |-> <<>>,
          price |-> 0, stock |-> "none", body |-> NoBody, list |-> <<>>,
          items |-> EmptyData, created |-> NoItem, n |-> 1]

\* api.get('/bouquets')
BouquetsRequest == [Cargo EXCEPT !.kind = "bouquets", !.phase = "req"]

\* api.delete(`/bouquets/${id}`)
BouquetDelete(id) == [Cargo EXCEPT !.kind = "bdelete", !.phase = "req", !.id = id]

\* api.patch(`/bouquets/${id}/toggle`, { field, value })
\* (shown: the position of the switch that was clicked)
BouquetToggle(id, field, value, was) ==
    [Cargo EXCEPT !.kind = "btoggle", !.phase = "req", !.id = id,
                  !.field = field, !.value = value, !.shown = was]

\* api.get('/constructor')
DataRequest == [Cargo EXCEPT !.kind = "constructor", !.phase = "req"]

\* api.post(tab.endpoint, { name: newName.trim(), price: Number(newPrice) })
ItemPost(tab, name, price) ==
    [Cargo EXCEPT !.kind = "cadd", !.phase = "req", !.tab = tab,
                  !.name = name, !.price = price]

\* api.delete(`${tab.endpoint}/${itemId}`)
ItemDelete(tab, itemId) ==
    [Cargo EXCEPT !.kind = "cdelete", !.phase = "req", !.tab = tab, !.id = itemId]

\* api.put(`${tab.endpoint}/${itemId}`, { inStock: newVal })
\* (shown: the position of the switch that was clicked)
ItemPut(tab, itemId, newVal, was) ==
    [Cargo EXCEPT !.kind = "ctoggle", !.phase = "req", !.tab = tab,
                  !.id = itemId, !.stock = newVal, !.shown = was]

---------------------------------------------------------------------------
(* Catalog views: initial state *)

\* the state of both components before they are mounted
CatalogState ==
    /\ bouquets = <<>>
    /\ bouquetsLoading = TRUE
    /\ itemData = EmptyData
    /\ dataLoading = TRUE
    /\ dataTab = "flowers"
    /\ submitting = FALSE
    /\ dataError = NoText
    /\ newName = <<>>
    /\ newPrice = <<>>
    /\ srvBouquets = InitialBouquets
    /\ srvData = InitialData
    /\ nCatalog = 0

CatalogUnmounted == CatalogState /\ catalogPage = "none" /\ air = {}

\* one of the two components is mounted and its effect has run:
\* useEffect(() => { fetchBouquets(); }, []), useEffect(() => { fetchData(); }, [])
CatalogInit ==
    /\ CatalogState
    /\ catalogPage \in {"bouquets", "constructor"}
    /\ air = {IF catalogPage = "bouquets" THEN BouquetsRequest ELSE DataRequest}

bouquetsView == <<bouquets, bouquetsLoading>>
dataView == <<itemData, dataLoading, dataTab, submitting, dataError, newName, newPrice>>
catalogServer == <<srvBouquets, srvData>>

\* the error string Bouquets renders: the component has no error cell and
\* its JSX has no error element
BouquetsError == NoText

\* the error string the mounted catalog view renders inline
CatalogError == IF catalogPage = "bouquets" THEN BouquetsError ELSE dataError

---------------------------------------------------------------------------
(* Bouquets: handlers *)

\* the table is rendered instead of the spinner
BouquetsShown == catalogPage = "bouquets" /\ ~bouquetsLoading

\* onClick={() => handleToggle(b.id, field, !b[field])} up to the await
HandleToggle(id, field) ==
    /\ BouquetsShown
    /\ nCatalog < MaxCatalog
    /\ Has(bouquets, id)
    /\ LET b == Find(bouquets, id)
       IN  air' = Put(air, BouquetToggle(id, field, ~b[field], FlagShown(b, field)))
    /\ nCatalog' = nCatalog + 1
    /\ UNCHANGED <<catalogPage, catalogServer, bouquetsView, dataView>>

\* a handleDelete of Bouquets that does not look at the answer to the dialog
BouquetHandleDeleteUnasked(id, confirmed) ==
    /\ BouquetsShown
    /\ nCatalog < MaxCatalog
    /\ Has(bouquets, id)
    /\ air' = Put(air, BouquetDelete(id))
    /\ nCatalog' = nCatalog + 1
    /\ UNCHANGED <<catalogPage, catalogServer, bouquetsView, dataView>>

\* handleDelete of Bouquets up to the await; confirmed is the answer to
\* window.confirm
BouquetHandleDelete(id, confirmed) ==
    /\ BouquetsShown
    /\ nCatalog < MaxCatalog
    /\ Has(bouquets, id)
    /\ air' = IF confirmed THEN Put(air, BouquetDelete(id)) ELSE air
    /\ nCatalog' = nCatalog + 1
    /\ UNCHANGED <<catalogPage, catalogServer, bouquetsView, dataView>>

---------------------------------------------------------------------------
(* ConstructorManager: handlers *)

\* the page is rendered instead of the spinner
DataShown == catalogPage = "constructor" /\ ~dataLoading

\* onClick={() => setActiveTab(tab.key)}
SetDataTab(t) ==
    /\ DataShown
    /\ nCatalog < MaxCatalog
    /\ dataTab' = t
    /\ nCatalog' = nCatalog + 1
    /\ UNCHANGED <<catalogPage, catalogServer, bouquetsView, itemData, dataLoading,
                   submitting, dataError, newName, newPrice, air>>

\* onChange={(e) => setNewName(e.target.value)}
TypeName(v) ==
    /\ DataShown
    /\ nCatalog < MaxCatalog
    /\ newName' = v
    /\ nCatalog' = nCatalog + 1
    /\ UNCHANGED <<catalogPage, catalogServer, bouquetsView, itemData, dataLoading,
                   dataTab, submitting, dataError, newPrice, air>>

\* onChange={(e) => setNewPrice(e.target.value)}
TypePrice(v) ==
    /\ DataShown
    /\ nCatalog < MaxCatalog
    /\ newPrice' = v
    /\ nCatalog' = nCatalog + 1
    /\ UNCHANGED <<catalogPage, catalogServer, bouquetsView, itemData, dataLoading,
                   dataTab, submitting, dataError, newName, air>>

\* if (!newName.trim() || !newPrice.trim()) return;
AddReturnsEarly == Trim(newName) = <<>> \/ Trim(newPrice) = <<>>

\* handleAdd up to the await (the submit button is disabled while submitting)
HandleAdd ==
    /\ DataShown
    /\ nCatalog < MaxCatalog
    /\ ~submitting
    /\ nCatalog' = nCatalog + 1
    /\ IF AddReturnsEarly
       THEN UNCHANGED <<submitting, dataError, air>>
       ELSE /\ submitting' = TRUE
            /\ dataError' = NoText
            /\ air' = Put(air, ItemPost(dataTab, Trim(newName), Number(newPrice)))
    /\ UNCHANGED <<catalogPage, catalogServer, bouquetsView, itemData, dataLoading,
                   dataTab, newName, newPrice>>

\* handleDelete of ConstructorManager up to the await
ItemHandleDelete(id, confirmed) ==
    /\ DataShown
    /\ nCatalog < MaxCatalog
    /\ Has(itemData[dataTab], id)
    /\ air' = IF confirmed THEN Put(air, ItemDelete(dataTab, id)) ELSE air
    /\ nCatalog' = nCatalog + 1
    /\ UNCHANGED <<catalogPage, catalogServer, bouquetsView, dataView>>

\* handleToggleStock up to the await
HandleToggleStock(id) ==
    /\ DataShown
    /\ nCatalog < MaxCatalog
    /\ Has(itemData[dataTab], id)
    /\ LET item == Find(itemData[dataTab], id)
       IN  air' = Put(air, ItemPut(dataTab, ItemKey(item), NotStock(item.inStock),
                                   StockShown(item)))
    /\ nCatalog' = nCatalog + 1
    /\ UNCHANGED <<catalogPage, catalogServer, bouquetsView, dataView>>

---------------------------------------------------------------------------
(* Catalog views: the server *)

\* the request m settles as r
Deliver(m, r) == Put(Take(air, m), r)

CatalogKinds ==
    {"bouquets", "bdelete", "btoggle", "constructor", "cadd", "cdelete", "ctoggle"}

\* the server cannot be reached, or it rejects the request with a message
CatalogUnreachable(m, body) ==
    /\ m.phase = "req"
    /\ m.kind \in CatalogKinds
    /\ air' = Deliver(m, [m EXCEPT !.phase = "fail", !.body = body])
    /\ UNCHANGED <<catalogPage, catalogServer, bouquetsView, dataView, nCatalog>>

\* GET /bouquets
ServerGetBouquets(m) ==
    /\ m.phase = "req" /\ m.kind = "bouquets"
    /\ air' = Deliver(m, [m EXCEPT !.phase = "ok", !.list = srvBouquets])
    /\ UNCHANGED <<catalogPage, catalogServer, bouquetsView, dataView, nCatalog>>

\* DELETE /bouquets/{id}
ServerDeleteBouquet(m) ==
    /\ m.phase = "req" /\ m.kind = "bdelete"
    /\ IF Has(srvBouquets, m.id)
       THEN /\ srvBouquets' = Without(srvBouquets, m.id)
            /\ air' = Deliver(m, [m EXCEPT !.phase = "ok"])
       ELSE /\ srvBouquets' = srvBouquets
            /\ air' = Deliver(m, [m EXCEPT !.phase = "fail"])
    /\ UNCHANGED <<catalogPage, srvData, bouquetsView, dataView, nCatalog>>

\* PATCH /bouquets/{id}/toggle
ServerToggleBouquet(m) ==
    /\ m.phase = "req" /\ m.kind = "btoggle"
    /\ IF Has(srvBouquets, m.id)
       THEN /\ srvBouquets' = PatchBouquets(srvBouquets, m.id, m.field, m.value)
            /\ air' = Deliver(m, [m EXCEPT !.phase = "ok"])
       ELSE /\ srvBouquets' = srvBouquets
            /\ air' = Deliver(m, [m EXCEPT !.phase = "fail"])
    /\ UNCHANGED <<catalogPage, srvData, bouquetsView, dataView, nCatalog>>

\* GET /constructor
ServerGetConstructor(m) ==
    /\ m.phase = "req" /\ m.kind = "constructor"
    /\ air' = Deliver(m, [m EXCEPT !.phase = "ok", !.items = srvData])
    /\ UNCHANGED <<catalogPage, catalogServer, bouquetsView, dataView, nCatalog>>

\* POST /constructor/{tab}
ServerPostItem(m, stock) ==
    /\ m.phase = "req" /\ m.kind = "cadd"
    /\ LET created == [id |-> FreshId(srvData[m.tab]), name |-> m.name,
                       price |-> m.price, inStock |-> stock]
       IN  /\ srvData' = AppendItem(srvData, m.tab, created)
           /\ air' = Deliver(m, [m EXCEPT !.phase = "ok", !.created = created])
    /\ UNCHANGED <<catalogPage, srvBouquets, bouquetsView, dataView, nCatalog>>

\* DELETE /constructor/{tab}/{id}
ServerDeleteItem(m) ==
    /\ m.phase = "req" /\ m.kind = "cdelete"
    /\ IF Has(srvData[m.tab], m.id)
       THEN /\ srvData' = RemoveItem(srvData, m.tab, m.id)
            /\ air' = Deliver(m, [m EXCEPT !.phase = "ok"])
       ELSE /\ srvData' = srvData
            /\ air' = Deliver(m, [m EXCEPT !.phase = "fail"])
    /\ UNCHANGED <<catalogPage, srvBouquets, bouquetsView, dataView, nCatalog>>

\* PUT /constructor/{tab}/{id}
ServerPutItem(m) ==
    /\ m.phase = "req" /\ m.kind = "ctoggle"
    /\ IF Has(srvData[m.tab], m.id)
       THEN /\ srvData' = PatchStock(srvData, m.tab, m.id, m.stock)
            /\ air' = Deliver(m, [m EXCEPT !.phase = "ok"])
       ELSE /\ srvData' = srvData
            /\ air' = Deliver(m, [m EXCEPT !.phase = "fail"])
    /\ UNCHANGED <<catalogPage, srvBouquets, bouquetsView, dataView, nCatalog>>

---------------------------------------------------------------------------
(* Bouquets: the handlers after their awaits *)

\* fetchBouquets: .then((res) => setBouquets(res.data)).finally(...)
FetchBouquetsOk(m) ==
    /\ m.kind = "bouquets" /\ m.phase = "ok"
    /\ bouquets' = m.list
    /\ bouquetsLoading' = FALSE
    /\ air' = Take(air, m)
    /\ UNCHANGED <<catalogPage, catalogServer, dataView, nCatalog>>

\* fetchBouquets: .catch(console.error).finally(() => setLoading(false))
FetchBouquetsFail(m) ==
    /\ m.kind = "bouquets" /\ m.phase = "fail"
    /\ bouquetsLoading' = FALSE
    /\ air' = Take(air, m)
    /\ UNCHANGED <<catalogPage, catalogServer, bouquets, dataView, nCatalog>>

\* handleDelete after the await: fetchBouquets()
BouquetDeleteOk(m) ==
    /\ m.kind = "bdelete" /\ m.phase = "ok"
    /\ bouquetsLoading' = TRUE
    /\ air' = Put(Take(air, m), BouquetsRequest)
    /\ UNCHANGED <<catalogPage, catalogServer, bouquets, dataView, nCatalog>>

\* handleDelete: catch (err) { console.error(err); }
BouquetDeleteFail(m) ==
    /\ m.kind = "bdelete" /\ m.phase = "fail"
    /\ air' = Take(air, m)
    /\ UNCHANGED <<catalogPage, catalogServer, bouquetsView, dataView, nCatalog>>

\* handleToggle after the await: setBouquets((prev) => prev.map(...))
HandleToggleOk(m) ==
    /\ m.kind = "btoggle" /\ m.phase = "ok"
    /\ bouquets' = PatchBouquets(bouquets, m.id, m.field, m.value)
    /\ air' = Take(air, m)
    /\ UNCHANGED <<catalogPage, catalogServer, bouquetsLoading, dataView, nCatalog>>

\* handleToggle: catch (err) { console.error(err); }
HandleToggleFail(m) ==
    /\ m.kind = "btoggle" /\ m.phase = "fail"
    /\ air' = Take(air, m)
    /\ UNCHANGED <<catalogPage, catalogServer, bouquetsView, dataView, nCatalog>>

---------------------------------------------------------------------------
(* ConstructorManager: the handlers after their awaits *)

\* fetchData: setData({ flowers: res.flowers || [], ... }), finally
FetchDataOk(m) ==
    /\ m.kind = "constructor" /\ m.phase = "ok"
    /\ itemData' = m.items
    /\ dataLoading' = FALSE
    /\ air' = Take(air, m)
    /\ UNCHANGED <<catalogPage, catalogServer, bouquetsView, dataTab, submitting,
                   dataError, newName, newPrice, nCatalog>>

\* fetchData: catch { setError(...) } finally { setLoading(false) }
FetchDataFail(m) ==
    /\ m.kind = "constructor" /\ m.phase = "fail"
    /\ dataError' = DataError
    /\ dataLoading' = FALSE
    /\ air' = Take(air, m)
    /\ UNCHANGED <<catalogPage, catalogServer, bouquetsView, itemData, dataTab,
                   submitting, newName, newPrice, nCatalog>>

\* handleAdd after the await
HandleAddOk(m) ==
    /\ m.kind = "cadd" /\ m.phase = "ok"
    /\ itemData' = AppendItem(itemData, m.tab, m.created)
    /\ newName' = <<>>
    /\ newPrice' = <<>>
    /\ submitting' = FALSE
    /\ air' = Take(air, m)
    /\ UNCHANGED <<catalogPage, catalogServer, bouquetsView, dataLoading, dataTab,
                   dataError, nCatalog>>

\* err.response?.data?.message || fallback
MessageOr(m, fallback) == IF m.body # NoBody THEN m.body ELSE fallback

\* handleAdd: catch and finally
HandleAddFail(m) ==
    /\ m.kind = "cadd" /\ m.phase = "fail"
    /\ dataError' = MessageOr(m, AddError)
    /\ submitting' = FALSE
    /\ air' = Take(air, m)
    /\ UNCHANGED <<catalogPage, catalogServer, bouquetsView, itemData, dataLoading,
                   dataTab, newName, newPrice, nCatalog>>

\* a handleDelete that filters the list of the tab active when the response
\* arrives
ItemDeleteOkActiveTab(m) ==
    /\ m.kind = "cdelete" /\ m.phase = "ok"
    /\ itemData' = RemoveItem(itemData, dataTab, m.id)
    /\ air' = Take(air, m)
    /\ UNCHANGED <<catalogPage, catalogServer, bouquetsView, dataLoading, dataTab,
                   submitting, dataError, newName, newPrice, nCatalog>>

\* handleDelete after the await
ItemDeleteOk(m) ==
    /\ m.kind = "cdelete" /\ m.phase = "ok"
    /\ itemData' = RemoveItem(itemData, m.tab, m.id)
    /\ air' = Take(air, m)
    /\ UNCHANGED <<catalogPage, catalogServer, bouquetsView, dataLoading, dataTab,
                   submitting, dataError, newName, newPrice, nCatalog>>

\* handleDelete: catch
ItemDeleteFail(m) ==
    /\ m.kind = "cdelete" /\ m.phase = "fail"
    /\ dataError' = MessageOr(m, DeleteError)
    /\ air' = Take(air, m)
    /\ UNCHANGED <<catalogPage, catalogServer, bouquetsView, itemData, dataLoading,
                   dataTab, submitting, newName, newPrice, nCatalog>>

\* handleToggleStock after the await
HandleToggleStockOk(m) ==
    /\ m.kind = "ctoggle" /\ m.phase = "ok"
    /\ itemData' = PatchStock(itemData, m.tab, m.id, m.stock)
    /\ air' = Take(air, m)
    /\ UNCHANGED <<catalogPage, catalogServer, bouquetsView, dataLoading, dataTab,
                   submitting, dataError, newName, newPrice, nCatalog>>

\* handleToggleStock's catch, had it applied the new value all the same
HandleToggleStockFailPatches(m) ==
    /\ m.kind = "ctoggle" /\ m.phase = "fail"
    /\ itemData' = PatchStock(itemData, m.tab, m.id, m.stock)
    /\ air' = Take(air, m)
    /\ UNCHANGED <<catalogPage, catalogServer, bouquetsView, dataLoading, dataTab,
                   submitting, dataError, newName, newPrice, nCatalog>>

\* handleToggleStock: catch { /* silently fail */ }
HandleToggleStockFail(m) ==
    /\ m.kind = "ctoggle" /\ m.phase = "fail"
    /\ air' = Take(air, m)
    /\ UNCHANGED <<catalogPage, catalogServer, bouquetsView, dataView, nCatalog>>

---------------------------------------------------------------------------
(* Search box of the Users and Loyalty lists *)

\* the characters of the model's strings
Characters == {"a", "A", "1", " "}

\* null (firstName: string | null), as a value that is no string
NullText == <<"null">>

\* c.toLowerCase() of one character
LowerOf(c) == IF c = "A" THEN "a" ELSE c

\* s.toLowerCase()
ToLowerCase(s) == [i \in DOMAIN s |-> LowerOf(s[i])]

\* s.includes(q)
Includes(s, q) ==
    \E i \in 0..(Len(s) - Len(q)) : SubSeq(s, i + 1, i + Len(q)) = q

\* x || ''
OrEmpty(x) == IF x = NullText THEN <<>> ELSE x

\* `${u.firstName || ''} ${u.lastName || ''}`
FullName(u) == OrEmpty(u.firstName) \o <<" ">> \o OrEmpty(u.lastName)

\* the user records the lists are tried on
UserRecords ==
    [firstName : {NullText, <<"A">>},
     lastName : {NullText, <<"a">>},
     username : {NullText, <<"A">>},
     phone : {NullText, <<"1">>, <<"A", "1">>},
     telegramId : {NullText, <<"1">>},
     maxId : {NullText}]

\* the two list views with a search box over users
SearchViews == {"Users", "Loyalty"}

\* the callback of users.filter in Loyalty
LoyaltyFiltered(s, u) ==
    IF Trim(s) = <<>> THEN TRUE
    ELSE LET q == ToLowerCase(s)
             name == ToLowerCase(FullName(u))
         IN  \/ Includes(name, q)
             \/ Includes(ToLowerCase(OrEmpty(u.username)), q)
             \/ Includes(OrEmpty(u.phone), q)

\* the callback of users.filter in Users
UsersFiltered(s, u) ==
    IF Trim(s) = <<>> THEN TRUE
    ELSE LET q == ToLowerCase(s)
             name == ToLowerCase(FullName(u))
         IN  \/ Includes(name, q)
             \/ Includes(ToLowerCase(OrEmpty(u.username)), q)
             \/ Includes(OrEmpty(u.phone), q)
             \/ Includes(OrEmpty(u.telegramId), q)
             \/ Includes(OrEmpty(u.maxId), q)

Filtered(view, s, u) ==
    IF view = "Users" THEN UsersFiltered(s, u) ELSE LoyaltyFiltered(s, u)

\* the row is in the table
RowShown == Filtered(searchView, search, row)

SearchState == search = <<>>

SearchUnmounted ==
    /\ SearchState
    /\ searchView = "none"
    /\ row = [firstName |-> NullText, lastName |-> NullText, username |-> NullText,
              phone |-> NullText, telegramId |-> NullText, maxId |-> NullText]

\* one of the two views is mounted and its list holds the record
SearchInit ==
    /\ SearchState
    /\ searchView \in SearchViews
    /\ row \in UserRecords

\* onChange={(e) => setSearch(e.target.value)}: a character is typed at the end
TypeSearch(c) ==
    /\ Len(search) < MaxQuery
    /\ search' = Append(search, c)
    /\ UNCHANGED <<searchView, row>>

\* onChange: the last character is deleted
EraseSearch ==
    /\ search # <<>>
    /\ search' = SubSeq(search, 1, Len(search) - 1)
    /\ UNCHANGED <<searchView, row>>

\* {search && <button onClick={() => setSearch('')}>}
ClearSearch ==
    /\ search # <<>>
    /\ search' = <<>>
    /\ UNCHANGED <<searchView, row>>

---------------------------------------------------------------------------
(* Forms (Broadcast, Settings, BouquetForm): data *)

\* two of the keys of SETTINGS_FIELDS
SettingKeys == {"studio_name", "phone"}

\* GET /settings when the view is mounted
InitialSettings == [k \in SettingKeys |-> IF k = "phone" THEN "7" ELSE "rosa"]

NoSettings == [k \in SettingKeys |-> ""]

\* what the admin types into a settings field and into the message box
TypedValues == {"8"}
TypedMessages == {<<"h", " ">>, <<" ">>}

\* result: null, or the counts POST /broadcast answers with
NoResult == [sent |-> 0 - 1, failed |-> 0 - 1, total |-> 0 - 1]
Delivered == [sent |-> 2, failed |-> 0, total |-> 2]

\* the :id of the route of BouquetForm: none for /bouquets/new
FormIds == {"new", "7"}

BroadcastError == "Oshibka otpravki rassylki"
SettingsLoadError == "Oshibka zagruzki nastroek"
SettingsSaveError == "Oshibka sohraneniya nastroek"
BouquetLoadError == "Oshibka zagruzki buketa"
BouquetSaveError == "Oshibka sohraneniya buketa"
FormMessages == {"Too many requests"}

\* A request of one of the forms in flight
Parcel == [kind |-> "none", phase |-> "none", text |-> <<>>,
           values |-> NoSettings, body |-> NoBody, counts |-> NoResult, n |-> 1]

\* api.post('/broadcast', { message: message.trim() })
BroadcastPost(text) == [Parcel EXCEPT !.kind = "broadcast", !.phase = "req", !.text = text]

\* api.get('/settings')
SettingsGet == [Parcel EXCEPT !.kind = "settings", !.phase = "req"]

\* api.put('/settings', settings)
SettingsPut(values) == [Parcel EXCEPT !.kind = "save", !.phase = "req", !.values = values]

\* api.get('/bouquets') of BouquetForm's effect
BouquetGet == [Parcel EXCEPT !.kind = "bouquet", !.phase = "req"]

\* api.put(`/bouquets/${id}`, fd) or api.post('/bouquets', fd)
BouquetSave(id) ==
    [Parcel EXCEPT !.kind = IF id = "new" THEN "create" ELSE "update", !.phase = "req"]

---------------------------------------------------------------------------
(* Forms: initial state *)

\* the state of the three components before they are mounted
FormsState ==
    /\ message = <<>>
    /\ sending = FALSE
    /\ result = NoResult
    /\ broadcastError = NoText
    /\ settings = NoSettings
    /\ settingsLoading = TRUE
    /\ saving = FALSE
    /\ settingsError = NoText
    /\ success = FALSE
    /\ hideTimers = 0
    /\ srvSettings = InitialSettings
    /\ formLoading = FALSE
    /\ formError = NoText
    /\ nForms = 0

FormsUnmounted ==
    /\ FormsState
    /\ formPage = "none"
    /\ formId = "new"
    /\ fetching = FALSE
    /\ outbox = {}

\* one of the three components is mounted and its effect has run
FormsInit ==
    /\ FormsState
    /\ formPage \in {"Broadcast", "Settings", "BouquetForm"}
    /\ formId \in IF formPage = "BouquetForm" THEN FormIds ELSE {"new"}
    /\ fetching = (formPage = "BouquetForm" /\ formId # "new")
    /\ outbox = CASE formPage = "Settings" -> {SettingsGet}
                  [] formPage = "BouquetForm" /\ formId # "new" -> {BouquetGet}
                  [] OTHER -> {}

broadcastView == <<message, sending, result, broadcastError>>
settingsView == <<settings, settingsLoading, saving, settingsError, success, hideTimers>>
bouquetFormView == <<formId, fetching, formLoading, formError>>

---------------------------------------------------------------------------
(* Broadcast: handlers *)

\* onChange={(e) => setMessage(e.target.value)}
TypeMessage(v) ==
    /\ formPage = "Broadcast"
    /\ nForms < MaxForms
    /\ message' = v
    /\ nForms' = nForms + 1
    /\ UNCHANGED <<formPage, sending, result, broadcastError, settingsView,
                   srvSettings, bouquetFormView, outbox>>

\* the send button, had it stayed enabled while a broadcast is being sent
SendDisabledBlankOnly == Trim(message) = <<>>

\* disabled={sending || !message.trim()}
SendDisabled == sending \/ Trim(message) = <<>>

\* handleSend up to the await; confirmed is the answer to window.confirm
HandleSend(confirmed) ==
    /\ formPage = "Broadcast"
    /\ nForms < MaxForms
    /\ ~SendDisabled
    /\ nForms' = nForms + 1
    /\ IF Trim(message) = <<>> \/ ~confirmed
       THEN UNCHANGED <<sending, result, broadcastError, outbox>>
       ELSE /\ sending' = TRUE
            /\ broadcastError' = NoText
            /\ result' = NoResult
            /\ outbox' = Put(outbox, BroadcastPost(Trim(message)))
    /\ UNCHANGED <<formPage, message, settingsView, srvSettings, bouquetFormView>>

\* handleSend after the await
HandleSendOk(m) ==
    /\ m.kind = "broadcast" /\ m.phase = "ok"
    /\ result' = m.counts
    /\ sending' = FALSE
    /\ outbox' = Take(outbox, m)
    /\ UNCHANGED <<formPage, message, broadcastError, settingsView, srvSettings,
                   bouquetFormView, nForms>>

\* err.response?.data?.error || fallback (message in Settings and BouquetForm)
BodyOr(m, fallback) == IF m.body # NoBody THEN m.body ELSE fallback

\* handleSend's catch, had it sent the broadcast again
HandleSendFailRetries(m) ==
    /\ m.kind = "broadcast" /\ m.phase = "fail"
    /\ broadcastError' = BodyOr(m, BroadcastError)
    /\ outbox' = Put(Take(outbox, m), BroadcastPost(m.text))
    /\ UNCHANGED <<formPage, message, sending, result, settingsView, srvSettings,
                   bouquetFormView, nForms>>

\* handleSend: catch and finally
HandleSendFail(m) ==
    /\ m.kind = "broadcast" /\ m.phase = "fail"
    /\ broadcastError' = BodyOr(m, BroadcastError)
    /\ sending' = FALSE
    /\ outbox' = Take(outbox, m)
    /\ UNCHANGED <<formPage, message, result, settingsView, srvSettings,
                   bouquetFormView, nForms>>

---------------------------------------------------------------------------
(* Settings: handlers *)

\* the form is rendered instead of the spinner
SettingsShown == formPage = "Settings" /\ ~settingsLoading

\* the effect's then and finally
FetchSettingsOk(m) ==
    /\ m.kind = "settings" /\ m.phase = "ok"
    /\ settings' = m.values
    /\ settingsLoading' = FALSE
    /\ outbox' = Take(outbox, m)
    /\ UNCHANGED <<formPage, broadcastView, saving, settingsError, success,
                   hideTimers, srvSettings, bouquetFormView, nForms>>

\* the effect's catch and finally
FetchSettingsFail(m) ==
    /\ m.kind = "settings" /\ m.phase = "fail"
    /\ settingsError' = SettingsLoadError
    /\ settingsLoading' = FALSE
    /\ outbox' = Take(outbox, m)
    /\ UNCHANGED <<formPage, broadcastView, settings, saving, success,
                   hideTimers, srvSettings, bouquetFormView, nForms>>

\* a handleChange that builds the record from the edited key alone
HandleChangeDropsOthers(key, value) ==
    /\ SettingsShown
    /\ nForms < MaxForms
    /\ settings' = [k \in SettingKeys |-> IF k = key THEN value ELSE ""]
    /\ success' = IF success THEN FALSE ELSE success
    /\ nForms' = nForms + 1
    /\ UNCHANGED <<formPage, broadcastView, settingsLoading, saving, settingsError,
                   hideTimers, srvSettings, bouquetFormView, outbox>>

\* handleChange
HandleChange(key, value) ==
    /\ SettingsShown
    /\ nForms < MaxForms
    /\ settings' = [settings EXCEPT ![key] = value]
    /\ success' = IF success THEN FALSE ELSE success
    /\ nForms' = nForms + 1
    /\ UNCHANGED <<formPage, broadcastView, settingsLoading, saving, settingsError,
                   hideTimers, srvSettings, bouquetFormView, outbox>>

\* handleSubmit of Settings up to the await (the button is disabled while saving)
SettingsSubmit ==
    /\ SettingsShown
    /\ nForms < MaxForms
    /\ ~saving
    /\ saving' = TRUE
    /\ settingsError' = NoText
    /\ success' = FALSE
    /\ outbox' = Put(outbox, SettingsPut(settings))
    /\ nForms' = nForms + 1
    /\ UNCHANGED <<formPage, broadcastView, settings, settingsLoading, hideTimers,
                   srvSettings, bouquetFormView>>

\* handleSubmit after the await: setSuccess(true); setTimeout(..., 3000)
SettingsSubmitOk(m) ==
    /\ m.kind = "save" /\ m.phase = "ok"
    /\ success' = TRUE
    /\ hideTimers' = hideTimers + 1
    /\ saving' = FALSE
    /\ outbox' = Take(outbox, m)
    /\ UNCHANGED <<formPage, broadcastView, settings, settingsLoading,
                   settingsError, srvSettings, bouquetFormView, nForms>>

\* handleSubmit: catch and finally
SettingsSubmitFail(m) ==
    /\ m.kind = "save" /\ m.phase = "fail"
    /\ settingsError' = BodyOr(m, SettingsSaveError)
    /\ saving' = FALSE
    /\ outbox' = Take(outbox, m)
    /\ UNCHANGED <<formPage, broadcastView, settings, settingsLoading, success,
                   hideTimers, srvSettings, bouquetFormView, nForms>>

\* () => setSuccess(false), three seconds after a save
HideSuccess ==
    /\ hideTimers > 0
    /\ hideTimers' = hideTimers - 1
    /\ success' = FALSE
    /\ UNCHANGED <<formPage, broadcastView, settings, settingsLoading, saving,
                   settingsError, srvSettings, bouquetFormView, outbox, nForms>>

---------------------------------------------------------------------------
(* BouquetForm: handlers *)

\* the effect's then (the form is filled) and finally
FetchBouquetOk(m) ==
    /\ m.kind = "bouquet" /\ m.phase = "ok"
    /\ fetching' = FALSE
    /\ outbox' = Take(outbox, m)
    /\ UNCHANGED <<formPage, broadcastView, settingsView, srvSettings, formId,
                   formLoading, formError, nForms>>

\* the effect's catch and finally
FetchBouquetFail(m) ==
    /\ m.kind = "bouquet" /\ m.phase = "fail"
    /\ formError' = BouquetLoadError
    /\ fetching' = FALSE
    /\ outbox' = Take(outbox, m)
    /\ UNCHANGED <<formPage, broadcastView, settingsView, srvSettings, formId,
                   formLoading, nForms>>

\* handleSubmit of BouquetForm up to the await (the button is disabled while
\* loading)
BouquetSubmit ==
    /\ formPage = "BouquetForm"
    /\ ~fetching
    /\ nForms < MaxForms
    /\ ~formLoading
    /\ formError' = NoText
    /\ formLoading' = TRUE
    /\ outbox' = Put(outbox, BouquetSave(formId))
    /\ nForms' = nForms + 1
    /\ UNCHANGED <<formPage, broadcastView, settingsView, srvSettings, formId, fetching>>

\* handleSubmit after the await: navigate('/bouquets') unmounts the form
BouquetSubmitOk(m) ==
    /\ m.kind \in {"create", "update"} /\ m.phase = "ok"
    /\ formPage' = "Bouquets"
    /\ outbox' = Take(outbox, m)
    /\ UNCHANGED <<broadcastView, settingsView, srvSettings, bouquetFormView, nForms>>

\* handleSubmit: catch and finally
BouquetSubmitFail(m) ==
    /\ m.kind \in {"create", "update"} /\ m.phase = "fail"
    /\ formError' = BodyOr(m, BouquetSaveError)
    /\ formLoading' = FALSE
    /\ outbox' = Take(outbox, m)
    /\ UNCHANGED <<formPage, broadcastView, settingsView, srvSettings, formId,
                   fetching, nForms>>

---------------------------------------------------------------------------
(* Forms: the server *)

\* the request m settles as r
Arrive(m, r) == Put(Take(outbox, m), r)

\* the server cannot be reached, or it rejects the request with a message
FormsUnreachable(m, body) ==
    /\ m.phase = "req"
    /\ outbox' = Arrive(m, [m EXCEPT !.phase = "fail", !.body = body])
    /\ UNCHANGED <<formPage, broadcastView, settingsView, srvSettings,
                   bouquetFormView, nForms>>

\* POST /broadcast, GET /bouquets, PUT /bouquets/{id}, POST /bouquets
ServerAnswers(m) ==
    /\ m.phase = "req" /\ m.kind \in {"broadcast", "bouquet", "create", "update"}
    /\ outbox' = Arrive(m, [m EXCEPT !.phase = "ok",
                                     !.counts = IF m.kind = "broadcast"
                                                THEN Delivered ELSE NoResult])
    /\ UNCHANGED <<formPage, broadcastView, settingsView, srvSettings,
                   bouquetFormView, nForms>>

\* GET /settings
ServerGetSettings(m) ==
    /\ m.phase = "req" /\ m.kind = "settings"
    /\ outbox' = Arrive(m, [m EXCEPT !.phase = "ok", !.values = srvSettings])
    /\ UNCHANGED <<formPage, broadcastView, settingsView, srvSettings,
                   bouquetFormView, nForms>>

\* PUT /settings
ServerPutSettings(m) ==
    /\ m.phase = "req" /\ m.kind = "save"
    /\ srvSettings' = m.values
    /\ outbox' = Arrive(m, [m EXCEPT !.phase = "ok"])
    /\ UNCHANGED <<formPage, broadcastView, settingsView, bouquetFormView, nForms>>

---------------------------------------------------------------------------
(* Orders view: specification *)

\* a step of the Orders view leaves the other views alone
OrdersOnly == UNCHANGED <<loyaltyVars, appVars, catalogVars, searchVars,
                         formsVars, mountedView>>

OrdersNext ==
    \/ OrdersOnly /\ \E t \in ClickedTabs : SetActiveTab(t)
    \/ OrdersOnly /\ \E o \in OrderIds : OpenOrder(o)
    \/ OrdersOnly /\ CloseOrder
    \/ OrdersOnly /\ \E o \in OrderIds, s \in Workflow : RowStatusChange(o, s)
    \/ OrdersOnly /\ \E s \in Workflow : ModalStatusChange(s)
    \/ OrdersOnly /\ \E m \in net : ServerUnreachable(m)
    \/ OrdersOnly /\ \E m \in net : ServerGetOrders(m)
    \/ OrdersOnly /\ \E m \in net : ServerPutStatus(m)
    \/ OrdersOnly /\ \E m \in net : ServerGetOrder(m)
    \/ OrdersOnly /\ \E m \in net : FetchOrdersOk(m)
    \/ OrdersOnly /\ \E m \in net : FetchOrdersFail(m)
    \/ OrdersOnly /\ \E m \in net : StatusChangeOk(m)
    \/ OrdersOnly /\ \E m \in net : StatusChangeFail(m)
    \/ OrdersOnly /\ \E m \in net : OrderRefreshOk(m)
    \/ OrdersOnly /\ \E m \in net : OrderRefreshFail(m)

\* the Orders view is mounted, the other components are not
InitOrders ==
    /\ OrdersInit /\ LoyaltyUnmounted /\ AppUnmounted /\ CatalogUnmounted /\ SearchUnmounted
    /\ FormsUnmounted /\ mountedView = "Orders"

SpecOrders == InitOrders /\ [][OrdersNext]_vars

---------------------------------------------------------------------------
(* Orders view: properties *)

RECURSIVE Chain(_)
\* every status a chain of offered transitions reaches from the statuses S
Chain(S) ==
    LET N == S \cup UNION {Offered(s) : s \in S}
    IN  IF N = S THEN S ELSE Chain(N)

\* C1: for each of the six statuses the lookup yields exactly the row of the
\* table of section 4.1, every control on screen (row select, modal buttons)
\* offers exactly that row for the status of its record, and no chain of
\* offered transitions leaves completed or canceled.
C1_TableExact ==
    /\ \A s \in Workflow : Offered(s) = AllowedNext[s]
    /\ \A o \in Listed :
          orders[o] \in Workflow => RowOptions(o) = AllowedNext[orders[o]]
    /\ (ModalOpen /\ selectedOrder.status \in Workflow)
          => ModalOptions = AllowedNext[selectedOrder.status]
    /\ Chain({"completed"}) = {"completed"}
    /\ Chain({"canceled"}) = {"canceled"}

\* a canceled order and an order that can advance have been on screen: the
\* first in the table and in the modal, the second when it was canceled
C1_Witness ==
    /\ TableShown
    /\ \E o \in Listed : orders[o] = "canceled" /\ RowOptions(o) = {}
    /\ ModalOpen /\ selectedOrder.status = "canceled" /\ ModalOptions = {}

\* C2: a PUT /orders/{id}/status is sent only with a target that is an allowed
\* next status of the order's current status, the status the server last told
\* the client for that order.
C2_OnlyAllowedSent ==
    [][\A m \in net' \ net :
          (m.kind = "put" /\ m.phase = "req")
             => m.target \in Offered(reported[m.id])]_vars

\* C3: when a status change fails with a message in the response body, the
\* banner shows exactly that message; the generic string is shown only when
\* the response carries none.
C3_ServerMessageShown ==
    [][\A m \in net \ net' :
          (m.kind = "put" /\ m.phase = "fail")
             => error' = IF m.body # NoBody
                         THEN ServerError(m.body)
                         ELSE StatusError(m.id)]_vars

\* C4: the handling of a failed status change leaves the list and the modal
\* as they are, issues no request (so no re-fetch of the list, and the
\* spinner is not started), and enables the order's control again; sending
\* the request changed neither the list nor the modal.
C4_FailureLeavesStatus ==
    [][/\ \A m \in net \ net' :
            (m.kind = "put" /\ m.phase = "fail")
               => /\ orders' = orders
                  /\ selectedOrder' = selectedOrder
                  /\ loading' = loading
                  /\ net' = net \ {m}
                  /\ updatingId' # m.id
       /\ \A m \in net' \ net :
            (m.kind = "put" /\ m.phase = "req")
               => orders' = orders /\ selectedOrder' = selectedOrder]_vars

\* a failed status change has been handled: its message is in the banner, the
\* list is on screen and nothing is in flight
C4_Witness ==
    /\ error.kind = "server"
    /\ updatingId = NoId
    /\ TableShown
    /\ Listed # {}
    /\ net = {}

\* C5: after a successful status change the list is fetched again with the
\* filter of the active tab, and the statuses on screen change only by taking
\* what a server response carries: the list from a list response, the modal
\* from the row it is opened on or from the response of GET /orders/{id}.
C5_NoLocalPatch ==
    [][/\ \A m \in net \ net' :
            (m.kind = "put" /\ m.phase = "ok")
               => \E r \in net' \ net :
                     [r EXCEPT !.n = 1] = ListRequest(activeTab)
       /\ orders' # orders
            => \E m \in net \ net' :
                  /\ m.kind = "list" /\ m.phase = "ok"
                  /\ orders' = m.data
       /\ (selectedOrder' # selectedOrder /\ selectedOrder' # NoOrder)
            => \/ /\ selectedOrder = NoOrder
                  /\ selectedOrder'.id \in Listed
                  /\ selectedOrder'.status = orders[selectedOrder'.id]
               \/ \E m \in net \ net' :
                     /\ m.kind = "detail" /\ m.phase = "ok"
                     /\ selectedOrder' = [id |-> m.id, status |-> m.got]
      ]_vars

C18_LateResponseOverwrites ==
    [][/\ \A m \in net \ net' :
             m.phase = "req" =>
                \E r \in net' \ net :
                    /\ r.phase \in {"ok", "fail"}
                    /\ [r EXCEPT !.phase = "req", !.data = m.data, !.got = m.got,
                                 !.body = m.body, !.n = m.n] = m
       /\ \A m \in net \ net' :
             (m.kind = "list" /\ m.phase = "ok") =>
                (orders' = m.data /\ activeTab' = activeTab)
      ]_vars

\* the mount's request for tab 'all' and the request for tab 'new' have both
\* succeeded, the one for 'all' last: tab 'new' is active and the list is the
\* unfiltered one
C18_Witness ==
    /\ ordersCopy = "detail"
    /\ activeTab = "new"
    /\ nActions = 1
    /\ net = {}
    /\ error = NoError
    /\ ~loading
    /\ orders = ServerOrders("all")
    /\ orders # ServerOrders("new")

\* C19: the loading indicator of the Orders view is active for as long as a
\* list request of the view has not been answered and handled, and it is off
\* once every list request has been, with success or with failure.
C19_LoadingUntilSettled ==
    /\ (\E m \in net : m.kind = "list") => loading
    /\ (\A m \in net : m.kind # "list") => ~loading

\* the status changes of order o that were sent and are not yet answered
ChangesInFlight(o) == {m \in net : m.kind = "put" /\ m.id = o /\ m.phase = "req"}

\* C22: for every order at most one status-change request is in flight at a
\* time: while a status change of an order has not settled, the controls of
\* that order are disabled (updatingId is that order), whatever is done to
\* the other orders meanwhile.
C22_OneChangePerOrder ==
    \A o \in OrderIds :
        ChangesInFlight(o) # {} =>
            /\ updatingId = o
            /\ Cardinality(ChangesInFlight(o)) <= 1

\* C23: whenever the detail modal is open for an order and no request is in
\* flight, the status the modal shows is the status the server last reported
\* for that order; so a change started from the row and completed after the
\* modal was opened on the same order is reflected in the modal.
C23_ModalShowsReported ==
    (ordersCopy = "detail" /\ ModalOpen /\ net = {})
        => selectedOrder.status = reported[selectedOrder.id]

---------------------------------------------------------------------------
(* Loyalty view: specification *)

\* a step of the Loyalty view leaves the other views alone
LoyaltyOnly == UNCHANGED <<ordersVars, appVars, catalogVars, searchVars,
                         formsVars, mountedView>>

LoyaltyNext ==
    \/ LoyaltyOnly /\ \E i \in 1..Cardinality(UserIds) : OpenUserHistory(i)
    \/ LoyaltyOnly /\ CloseModal
    \/ LoyaltyOnly /\ OpenAdjustForm
    \/ LoyaltyOnly /\ CancelAdjust
    \/ LoyaltyOnly /\ \E v \in TypedAmounts : TypeAmount(v)
    \/ LoyaltyOnly /\ PlusClick
    \/ LoyaltyOnly /\ MinusClick
    \/ LoyaltyOnly /\ \E d \in TypedDescriptions : TypeDescription(d)
    \/ LoyaltyOnly /\ SubmitAdjust
    \/ LoyaltyOnly /\ \E u \in Earners : ServerEarn(u)
    \/ LoyaltyOnly /\ \E m \in calls : LoyaltyUnreachable(m)
    \/ LoyaltyOnly /\ \E m \in calls : ServerGetLoyalty(m)
    \/ LoyaltyOnly /\ \E m \in calls : ServerGetHistory(m)
    \/ LoyaltyOnly /\ \E m \in calls : ServerPostAdjust(m)
    \/ LoyaltyOnly /\ \E m \in calls : FetchUsersOk(m)
    \/ LoyaltyOnly /\ \E m \in calls : FetchUsersFail(m)
    \/ LoyaltyOnly /\ \E m \in calls : UserHistoryOk(m)
    \/ LoyaltyOnly /\ \E m \in calls : UserHistoryFail(m)
    \/ LoyaltyOnly /\ \E m \in calls : AdjustPosted(m)
    \/ LoyaltyOnly /\ \E m \in calls : AdjustFail(m)
    \/ LoyaltyOnly /\ \E m \in calls : AdjustDone(m)
    \/ LoyaltyOnly /\ \E m \in calls : AdjustHistoryFail(m)

\* the Loyalty view is mounted, the other components are not
InitLoyalty ==
    /\ OrdersUnmounted /\ LoyaltyInit /\ AppUnmounted /\ CatalogUnmounted /\ SearchUnmounted
    /\ FormsUnmounted /\ mountedView = "Loyalty"

SpecLoyalty == InitLoyalty /\ [][LoyaltyNext]_vars

---------------------------------------------------------------------------
(* Loyalty view: properties *)

\* handleAdjust has run to its end on its success path for the request m
Reconciled(m) == m.kind = "history" /\ m.phase = "ok" /\ m.why = "adjust"

\* C7: for a user with balance b and a submitted amount a, when a successful
\* adjustment and its reconciliation have completed (nobody else having changed
\* a balance), the list shows b + a for the user, the modal shows b + a when it
\* shows the user, and the displayed history is the history before followed by
\* one entry of amount a.
C7_BalanceAfterAdjust ==
    [][\A m \in calls \ calls' :
          (Reconciled(m) /\ m.fetchedOk /\ nEarned = 0) =>
              /\ users'[m.id].bonusPoints = m.before + m.amount
              /\ (selectedUser'.id = m.id =>
                      selectedUser'.bonusPoints = m.before + m.amount)
              /\ history' = Append(m.ledgerBefore, m.amount)]_vars

\* C8: when a successful adjustment has fully completed, the balance the modal
\* shows for the adjusted user is the balance the server returned in the
\* re-fetch, also when that differs from the old balance plus the amount.
C8_ModalShowsServerBalance ==
    [][\A m \in calls \ calls' :
          (Reconciled(m) /\ m.fetchedOk /\ selectedUser'.id = m.id) =>
              selectedUser'.bonusPoints = m.fetched]_vars

\* a submit of the adjust form (the only click counted while the form is shown)
Submitted == FormShown /\ nClicks' # nClicks

\* C9: the adjust form has no floor: a submit with a filled amount field sends
\* the POST with that amount as a number whatever the user's balance, and a
\* submit with an empty field sends nothing; when the POST is rejected the
\* server's message is shown, or the generic text when there is none, and the
\* list, the modal's balance, the history and the form are left as they were.
C9_NoFloorAndRejection ==
    [][/\ Submitted =>
            IF FieldValue(adjustAmount) = <<>>
            THEN calls' = calls
            ELSE \E r \in calls' \ calls :
                    /\ r.kind = "adjust" /\ r.phase = "req"
                    /\ r.id = selectedUser.id
                    /\ r.amount \in Int
                    /\ r.amount = Number(FieldValue(adjustAmount))
       /\ \A m \in calls \ calls' :
            (m.kind = "adjust" /\ m.phase = "fail") =>
                /\ loyaltyError' = (IF m.body # "nobody" THEN m.body ELSE AdjustError)
                /\ calls' = calls \ {m}
                /\ UNCHANGED <<users, selectedUser, history, showAdjust,
                               adjustAmount, adjustDescription>>]_vars

\* a debit larger than the balance was sent and rejected: the server's message
\* is shown over the untouched form
C9_Witness ==
    /\ FormShown
    /\ loyaltyError = InsufficientPoints
    /\ adjustAmount = <<"-", "5">>
    /\ selectedUser.bonusPoints + Number(adjustAmount) < 0
    /\ ~adjusting
    /\ calls = {}

\* C24: the balance the modal displays for the selected user changes only
\* by an adjustment submitted for that user: an adjustment for user A that
\* completes after the modal was closed and opened again on user B does not
\* change B's displayed balance.
C24_BalanceOwnAdjustOnly ==
    [][(/\ selectedUser # NoUser
        /\ selectedUser'.id = selectedUser.id
        /\ selectedUser'.bonusPoints # selectedUser.bonusPoints)
          => \E m \in calls \ calls' :
                m.why = "adjust" /\ m.id = selectedUser.id]_vars

\* s is the beginning of t
IsPrefix(s, t) == Len(s) <= Len(t) /\ SubSeq(t, 1, Len(s)) = s

\* C25: whenever the modal is open for a user and no request is in flight,
\* the history displayed is a history the server returned for that user (the
\* server's ledger of the user, which only grows, or an earlier state of it)
\* or it is empty; it is never the history of another user, in whatever
\* order the responses of history requests arrive.
C25_HistoryOfSelectedUser ==
    (UserModalOpen /\ calls = {})
        => IsPrefix(history, srvLedger[selectedUser.id])

\* C26: when the adjustment POST has succeeded, the handler does not report
\* the adjustment as failed, and it resets and closes the adjust form when it
\* finishes, whether the re-fetches of the list and of the history succeed or
\* fail (the history re-fetch is sent only after a POST that succeeded).
C26_PostedAdjustClosesForm ==
    [][\A m \in calls \ calls' :
          (m.kind = "history" /\ m.why = "adjust" /\ m.phase \in {"ok", "fail"})
             => /\ loyaltyError' \notin {AdjustError, InsufficientPoints}
                /\ adjustAmount' = <<>>
                /\ adjustDescription' = <<>>
                /\ showAdjust' = FALSE
                /\ adjusting' = FALSE]_vars

---------------------------------------------------------------------------
(* App shell and Login: specification *)

\* a step of the shell leaves the views alone
AppOnly == UNCHANGED <<ordersVars, loyaltyVars, catalogVars, searchVars,
                         formsVars, mountedView>>

AppNext ==
    \/ AppOnly /\ AuthCheck
    \/ AppOnly /\ \E p \in Paths : GoTo(p)
    \/ AppOnly /\ Logout
    \/ AppOnly /\ \E good \in BOOLEAN : LoginSubmit(good)
    \/ AppOnly /\ \E m \in wire : ServerAuthMe(m)
    \/ AppOnly /\ \E m \in wire : ServerLogin(m)
    \/ AppOnly /\ \E m \in wire : AuthUnreachable(m)
    \/ AppOnly /\ \E m \in wire : AuthMeOk(m)
    \/ AppOnly /\ \E m \in wire : AuthMeFail(m)
    \/ AppOnly /\ \E m \in wire : LoginOk(m)
    \/ AppOnly /\ \E m \in wire : LoginFail(m)

\* the page is loaded: App is mounted, no view is yet
InitApp ==
    /\ OrdersUnmounted /\ LoyaltyUnmounted /\ AppInit /\ CatalogUnmounted /\ SearchUnmounted
    /\ FormsUnmounted /\ mountedView = "App"

SpecApp == InitApp /\ [][AppNext]_vars

---------------------------------------------------------------------------
(* App shell and Login: properties *)

\* C10: when the page is loaded with a stored token and the /auth/me check
\* fails, the token is removed, the flag becomes false and every location
\* renders the login screen; no /auth/me request is sent after the one of the
\* load; and with no stored token the flag becomes false without any request.
C10_AuthCheckFailure ==
    [][/\ (~mounted /\ mounted' /\ token = NoToken) =>
              isAuth' = AuthNo /\ wire' = {} /\ nAuthMe' = 0
       /\ \A m \in wire \ wire' :
              (m.kind = "me" /\ m.phase = "fail") =>
                  /\ token' = NoToken
                  /\ isAuth' = AuthNo
                  /\ Render(isAuth', path') = "Login"
                  /\ \A p \in Paths : Render(isAuth', Lands(isAuth', p)) = "Login"
       /\ \A m \in wire' \ wire :
              (m.kind = "me" /\ m.phase = "req") => ~mounted /\ nAuthMe = 0]_vars

\* the check of a load with a stored token has failed: no token, the login screen
C10_Witness ==
    /\ mounted
    /\ nAuthMe = 1
    /\ nSteps = 0
    /\ wire = {}
    /\ token = NoToken
    /\ isAuth = AuthNo
    /\ Screen = "Login"

\* C11: a protected view is rendered only while the authentication flag is
\* true; while the flag is undetermined only the spinner is rendered, and while
\* it is false the login screen is rendered and every location resolves to it.
C11_ProtectedOnlyWhenAuth ==
    /\ Screen \in ProtectedViews => isAuth = AuthYes
    /\ isAuth = AuthUnknown => Screen = "Spinner"
    /\ isAuth = AuthNo =>
          /\ Screen = "Login"
          /\ \A p \in Paths : Render(isAuth, Lands(isAuth, p)) = "Login"
    /\ isAuth = AuthYes => Screen \in ProtectedViews

\* the Orders view is on the screen of a logged-in user who had to log in
C11_Witness ==
    /\ isAuth = AuthYes
    /\ Screen = "Orders"
    /\ nAuthMe = 0

\* C27: the authentication flag is true only while a token is stored under
\* 'rosa_admin_token': the flag becomes true only in a step that leaves a
\* token stored (login stores it before it sets the flag), the token is
\* removed only together with the clearing of the flag (logout, failed
\* authentication check), and the handling of a failed login changes neither
\* the stored token nor the flag.
C27_FlagOnlyWithToken ==
    /\ [](isAuth = AuthYes => token # NoToken)
    /\ [][/\ (isAuth' = AuthYes /\ isAuth # AuthYes) => token' # NoToken
          /\ (token' = NoToken /\ token # NoToken) => isAuth' = AuthNo
          /\ Logout => (token' = NoToken /\ isAuth' = AuthNo)
          /\ \A m \in wire \ wire' :
                (m.kind = "login" /\ m.phase = "fail")
                   => (token' = token /\ isAuth' = isAuth)
         ]_vars

\* after two or more steps of the user (logins, logouts, navigation) the
\* flag is set, a protected view is on screen and the token is stored
C27_Witness ==
    /\ isAuth = AuthYes
    /\ token = "valid"
    /\ nSteps >= 2
    /\ wire = {}
    /\ Screen \in ProtectedViews

---------------------------------------------------------------------------
(* Catalog views: specification *)

\* a step of a catalog view leaves the other views alone
CatalogOnly == UNCHANGED <<ordersVars, loyaltyVars, appVars, searchVars,
                         formsVars, mountedView>>

CatalogNext ==
    \/ CatalogOnly /\ \E b \in BouquetIds, f \in BouquetFlags : HandleToggle(b, f)
    \/ CatalogOnly /\ \E b \in BouquetIds, c \in BOOLEAN : BouquetHandleDelete(b, c)
    \/ CatalogOnly /\ \E t \in TabKeys : SetDataTab(t)
    \/ CatalogOnly /\ \E v \in TypedNames : TypeName(v)
    \/ CatalogOnly /\ \E v \in TypedPrices : TypePrice(v)
    \/ CatalogOnly /\ HandleAdd
    \/ CatalogOnly /\ \E i \in Keys(itemData[dataTab]), c \in BOOLEAN :
                          ItemHandleDelete(i, c)
    \/ CatalogOnly /\ \E i \in Keys(itemData[dataTab]) : HandleToggleStock(i)
    \/ CatalogOnly /\ \E m \in air, b \in {NoBody} \cup CatalogMessages :
                          CatalogUnreachable(m, b)
    \/ CatalogOnly /\ \E m \in air : ServerGetBouquets(m)
    \/ CatalogOnly /\ \E m \in air : ServerDeleteBouquet(m)
    \/ CatalogOnly /\ \E m \in air : ServerToggleBouquet(m)
    \/ CatalogOnly /\ \E m \in air : ServerGetConstructor(m)
    \/ CatalogOnly /\ \E m \in air, s \in CreatedStock : ServerPostItem(m, s)
    \/ CatalogOnly /\ \E m \in air : ServerDeleteItem(m)
    \/ CatalogOnly /\ \E m \in air : ServerPutItem(m)
    \/ CatalogOnly /\ \E m \in air : FetchBouquetsOk(m)
    \/ CatalogOnly /\ \E m \in air : FetchBouquetsFail(m)
    \/ CatalogOnly /\ \E m \in air : BouquetDeleteOk(m)
    \/ CatalogOnly /\ \E m \in air : BouquetDeleteFail(m)
    \/ CatalogOnly /\ \E m \in air : HandleToggleOk(m)
    \/ CatalogOnly /\ \E m \in air : HandleToggleFail(m)
    \/ CatalogOnly /\ \E m \in air : FetchDataOk(m)
    \/ CatalogOnly /\ \E m \in air : FetchDataFail(m)
    \/ CatalogOnly /\ \E m \in air : HandleAddOk(m)
    \/ CatalogOnly /\ \E m \in air : HandleAddFail(m)
    \/ CatalogOnly /\ \E m \in air : ItemDeleteOk(m)
    \/ CatalogOnly /\ \E m \in air : ItemDeleteFail(m)
    \/ CatalogOnly /\ \E m \in air : HandleToggleStockOk(m)
    \/ CatalogOnly /\ \E m \in air : HandleToggleStockFail(m)

\* a catalog view is mounted, the other components are not
InitCatalog ==
    /\ OrdersUnmounted /\ LoyaltyUnmounted /\ AppUnmounted /\ CatalogInit /\ SearchUnmounted
    /\ FormsUnmounted /\ mountedView = "Catalog"

SpecCatalog == InitCatalog /\ [][CatalogNext]_vars

---------------------------------------------------------------------------
(* Catalog views: properties *)

\* the records of two lists of equal length differ at most in field f of the
\* records whose id is id
OnlyFlagDiffers(before, after, id, f) ==
    /\ Len(after) = Len(before)
    /\ \A i \in DOMAIN before :
          /\ before[i].id # id => after[i] = before[i]
          /\ \A g \in DOMAIN before[i] \ {f} :
                g \in DOMAIN after[i] /\ after[i][g] = before[i][g]
          /\ DOMAIN after[i] = DOMAIN before[i]

\* C12: when the response of a successful toggle is handled, the local lists
\* differ from what they were only in the toggled flag of the record with the
\* toggled id: the other fields of that record, the other records and the
\* lists of the other constructor tabs are the same, whatever other toggles
\* are in flight or have been answered.
C12_ToggleChangesOnlyFlag ==
    [][\A m \in air \ air' :
          /\ (m.kind = "btoggle" /\ m.phase = "ok") =>
                /\ OnlyFlagDiffers(bouquets, bouquets', m.id, m.field)
                /\ itemData' = itemData
          /\ (m.kind = "ctoggle" /\ m.phase = "ok") =>
                /\ OnlyFlagDiffers(itemData[m.tab], itemData'[m.tab], m.id, "inStock")
                /\ \A t \in TabKeys \ {m.tab} : itemData'[t] = itemData[t]
                /\ bouquets' = bouquets
      ]_vars

\* the stock switch of bouquet 1 has been turned off while the answer to
\* another toggle is waiting to be handled, and bouquet 2 is as it was
C12_Witness ==
    /\ catalogPage = "bouquets"
    /\ Len(bouquets) = 2
    /\ bouquets[1] = [InitialBouquets[1] EXCEPT !.inStock = FALSE]
    /\ bouquets[2] = InitialBouquets[2]
    /\ \E m \in air : m.kind = "btoggle" /\ m.phase = "ok"

\* C13: when the response of a successful toggle is handled, the switch of
\* the toggled record shows the negation of what it showed when it was
\* clicked, also for a constructor item without an inStock field.
C13_ToggleFlips ==
    [][\A m \in air \ air' :
          /\ (m.kind = "btoggle" /\ m.phase = "ok" /\ Has(bouquets', m.id)) =>
                FlagShown(Find(bouquets', m.id), m.field) = ~m.shown
          /\ (m.kind = "ctoggle" /\ m.phase = "ok" /\ Has(itemData'[m.tab], m.id)) =>
                StockShown(Find(itemData'[m.tab], m.id)) = ~m.shown
      ]_vars

\* C14: the local bouquet list and the local constructor lists change only
\* in the step that handles a successful response (of a list fetch, an add, a
\* delete or a toggle), and the step that handles the failure of an add, a
\* delete or a toggle leaves them as they were.
C14_ListsFollowServer ==
    [][/\ bouquets' # bouquets =>
             \E m \in air \ air' :
                 m.phase = "ok" /\ m.kind \in {"bouquets", "btoggle"}
       /\ itemData' # itemData =>
             \E m \in air \ air' :
                 m.phase = "ok" /\ m.kind \in {"constructor", "cadd", "cdelete", "ctoggle"}
       /\ \A m \in air \ air' :
             (m.phase = "fail" /\ m.kind \in {"bdelete", "btoggle", "cadd", "cdelete", "ctoggle"})
                => (bouquets' = bouquets /\ itemData' = itemData)
      ]_vars

\* the deletion of a constructor item has failed and the failure has been
\* handled: the lists are the ones the server sent
C14_Witness ==
    /\ catalogPage = "constructor"
    /\ ~dataLoading
    /\ itemData = InitialData
    /\ srvData = InitialData
    /\ air = {}
    /\ dataError = DeleteError

\* C16: when the failure of a data fetch is handled, the error string the
\* view renders inline is not empty.
C16_FetchFailureShown ==
    [][\A m \in air \ air' :
          (m.phase = "fail" /\ m.kind \in {"bouquets", "constructor"})
             => CatalogError' # NoText
      ]_vars


\* C17: in every reachable state at most one request issued by a view is in
\* flight (sent and not yet handled by the view).
C17_OneRequestInFlight ==
    /\ Cardinality(net) <= 1
    /\ Cardinality(calls) <= 1
    /\ Cardinality(air) <= 1

\* the items of a list whose id is not itemId, in their order
Others(list, itemId) == SelectSeq(list, LAMBDA x : x.id # itemId)

\* C29: in the Constructor manager an add or a delete changes only the list
\* of the tab that was active when it was started, also when another tab is
\* active by the time the response is handled: a successful add appends
\* exactly the created item to that list, a successful delete removes exactly
\* the item of the deleted id from it, and the other two lists stay as they
\* are.
C29_AddDeleteOwnTab ==
    [][\A m \in air \ air' :
          /\ (m.kind = "cadd" /\ m.phase = "ok") =>
                /\ itemData'[m.tab] = Append(itemData[m.tab], m.created)
                /\ \A t \in TabKeys \ {m.tab} : itemData'[t] = itemData[t]
          /\ (m.kind = "cdelete" /\ m.phase = "ok") =>
                /\ itemData'[m.tab] = Others(itemData[m.tab], m.id)
                /\ \A t \in TabKeys \ {m.tab} : itemData'[t] = itemData[t]
      ]_vars

\* the server has created an item for the tab the add was started on, and
\* another tab is active when the response is about to be handled
C29_Witness ==
    /\ catalogPage = "constructor"
    /\ \E m \in air : /\ m.kind = "cadd" /\ m.phase = "ok"
                      /\ m.tab # dataTab
                      /\ m.created # NoItem
                      /\ itemData[dataTab] # <<>>

\* the DELETE requests a step sends
DeletesSent == {r \in air' \ air : r.kind \in {"bdelete", "cdelete"} /\ r.phase = "req"}

\* C30: a DELETE for a bouquet or a constructor item is sent only by a delete
\* click whose confirmation dialog was confirmed, and for the item of that
\* click; a declined dialog sends nothing and leaves the local state as it
\* is; the handling of a successful bouquet delete sends the GET /bouquets
\* that fetches the list again.
C30_DeleteOnlyConfirmed ==
    [][/\ \A r \in DeletesSent :
             \/ r.kind = "bdelete" /\ BouquetHandleDelete(r.id, TRUE)
             \/ r.kind = "cdelete" /\ r.tab = dataTab /\ ItemHandleDelete(r.id, TRUE)
       /\ \A b \in BouquetIds :
             BouquetHandleDelete(b, FALSE) => UNCHANGED <<air, bouquetsView, dataView>>
       /\ \A i \in Keys(itemData[dataTab]) :
             ItemHandleDelete(i, FALSE) => UNCHANGED <<air, bouquetsView, dataView>>
       /\ \A m \in air \ air' :
             (m.kind = "bdelete" /\ m.phase = "ok")
                => \E r \in air' \ air : [r EXCEPT !.n = 1] = BouquetsRequest
      ]_vars

\* a bouquet was deleted after the dialog was confirmed and the list was
\* fetched again: it shows the one bouquet the server still holds
C30_Witness ==
    /\ catalogPage = "bouquets"
    /\ Len(srvBouquets) = Len(InitialBouquets) - 1
    /\ bouquets = srvBouquets
    /\ ~bouquetsLoading
    /\ air = {}

---------------------------------------------------------------------------
(* Search box: specification *)

\* a step of the search box leaves the other views alone
SearchOnly == UNCHANGED <<ordersVars, loyaltyVars, appVars, catalogVars,
                         formsVars, mountedView>>

SearchNext ==
    \/ SearchOnly /\ \E c \in Characters : TypeSearch(c)
    \/ SearchOnly /\ EraseSearch
    \/ SearchOnly /\ ClearSearch

InitSearch ==
    /\ OrdersUnmounted /\ LoyaltyUnmounted /\ AppUnmounted /\ CatalogUnmounted
    /\ SearchInit /\ FormsUnmounted /\ mountedView = "Search"

SpecSearch == InitSearch /\ [][SearchNext]_vars

---------------------------------------------------------------------------
(* Search box: properties *)

\* q occurs in s, compared without regard to case
OccursIn(q, s) == Includes(ToLowerCase(s), ToLowerCase(q))

\* C15: a user record is in the table exactly when the search string is
\* blank or occurs, compared without regard to case, in the full name, the
\* username or the phone (in Users also in the platform ids), and the search
\* string selects what its lower-case form selects.
C15_SearchIgnoresCase ==
    /\ RowShown <=>
          \/ Trim(search) = <<>>
          \/ OccursIn(search, FullName(row))
          \/ OccursIn(search, OrEmpty(row.username))
          \/ OccursIn(search, OrEmpty(row.phone))
          \/ /\ searchView = "Users"
             /\ \/ OccursIn(search, OrEmpty(row.telegramId))
                \/ OccursIn(search, OrEmpty(row.maxId))
    /\ RowShown <=> Filtered(searchView, ToLowerCase(search), row)

---------------------------------------------------------------------------
(* Forms: specification *)

\* a step of a form leaves the other views alone
FormsOnly == UNCHANGED <<ordersVars, loyaltyVars, appVars, catalogVars, searchVars,
                        mountedView>>

FormsNext ==
    \/ FormsOnly /\ \E v \in TypedMessages : TypeMessage(v)
    \/ FormsOnly /\ \E c \in BOOLEAN : HandleSend(c)
    \/ FormsOnly /\ \E k \in SettingKeys, v \in TypedValues : HandleChange(k, v)
    \/ FormsOnly /\ SettingsSubmit
    \/ FormsOnly /\ HideSuccess
    \/ FormsOnly /\ BouquetSubmit
    \/ FormsOnly /\ \E m \in outbox, b \in {NoBody} \cup FormMessages :
                        FormsUnreachable(m, b)
    \/ FormsOnly /\ \E m \in outbox : ServerAnswers(m)
    \/ FormsOnly /\ \E m \in outbox : ServerGetSettings(m)
    \/ FormsOnly /\ \E m \in outbox : ServerPutSettings(m)
    \/ FormsOnly /\ \E m \in outbox : HandleSendOk(m)
    \/ FormsOnly /\ \E m \in outbox : HandleSendFail(m)
    \/ FormsOnly /\ \E m \in outbox : FetchSettingsOk(m)
    \/ FormsOnly /\ \E m \in outbox : FetchSettingsFail(m)
    \/ FormsOnly /\ \E m \in outbox : SettingsSubmitOk(m)
    \/ FormsOnly /\ \E m \in outbox : SettingsSubmitFail(m)
    \/ FormsOnly /\ \E m \in outbox : FetchBouquetOk(m)
    \/ FormsOnly /\ \E m \in outbox : FetchBouquetFail(m)
    \/ FormsOnly /\ \E m \in outbox : BouquetSubmitOk(m)
    \/ FormsOnly /\ \E m \in outbox : BouquetSubmitFail(m)

\* one of the forms is mounted, the other components are not
InitForms ==
    /\ OrdersUnmounted /\ LoyaltyUnmounted /\ AppUnmounted /\ CatalogUnmounted
    /\ SearchUnmounted /\ FormsInit /\ mountedView = "Forms"

SpecForms == InitForms /\ [][FormsNext]_vars

---------------------------------------------------------------------------
(* Forms: properties *)

\* the POST /broadcast requests in flight or answered and not yet handled
Broadcasts(X) == {m \in X : m.kind = "broadcast"}

\* C21: a broadcast is one-shot: POST /broadcast is sent only by a send that
\* the admin confirmed, with a message that is not blank, and it carries the
\* trimmed message; a confirmed send adds exactly one request and a declined
\* one adds none; at most one broadcast is in flight at any time; the result
\* banner and the error banner are never both shown.
C21_BroadcastOneShot ==
    /\ [](/\ Cardinality(Broadcasts(outbox)) <= 1
          /\ ~(result # NoResult /\ broadcastError # NoText))
    /\ [][/\ (Broadcasts(outbox') # Broadcasts(outbox) /\ nForms' # nForms) =>
                /\ HandleSend(TRUE)
                /\ Trim(message) # <<>>
                /\ Broadcasts(outbox) = {}
                /\ Broadcasts(outbox') = {BroadcastPost(Trim(message))}
          /\ (HandleSend(TRUE) /\ ~HandleSend(FALSE)) =>
                Cardinality(outbox') = Cardinality(outbox) + 1
          /\ HandleSend(FALSE) => UNCHANGED <<outbox, broadcastView>>
         ]_vars

\* a confirmed broadcast is in flight and carries less than what was typed
C21_Witness ==
    /\ formPage = "Broadcast"
    /\ sending
    /\ \E m \in outbox : /\ m.kind = "broadcast" /\ m.phase = "req"
                         /\ m.text = Trim(message) /\ m.text # message

\* C28: in the Settings view the success banner and the error banner are
\* never both shown; the success banner appears only when a PUT /settings
\* has succeeded and every edit of a field takes it away; the edit of one
\* field sets that key of the local settings and leaves every other key as
\* it was.
C28_SettingsBanners ==
    /\ [](~(success /\ settingsError # NoText))
    /\ [][/\ (success' /\ ~success) =>
                \E m \in outbox \ outbox' : m.kind = "save" /\ m.phase = "ok"
          /\ \A k \in SettingKeys, v \in TypedValues :
                HandleChange(k, v) =>
                   /\ ~success'
                   /\ settings'[k] = v
                   /\ \A j \in SettingKeys \ {k} : settings'[j] = settings[j]
         ]_vars

\* a field was edited and the settings saved: the success banner is shown,
\* the server holds what the form shows, nothing is in flight
C28_Witness ==
    /\ formPage = "Settings"
    /\ success
    /\ \E k \in SettingKeys : settings[k] \in TypedValues /\ InitialSettings[k] \notin TypedValues
    /\ srvSettings = settings
    /\ settingsError = NoText
    /\ outbox = {}

---------------------------------------------------------------------------
(* The dashboard: one group of components mounted at a time *)

AdminNext ==
    \/ mountedView = "Orders" /\ OrdersNext
    \/ mountedView = "Loyalty" /\ LoyaltyNext
    \/ mountedView = "App" /\ AppNext
    \/ mountedView = "Catalog" /\ CatalogNext
    \/ mountedView = "Search" /\ SearchNext
    \/ mountedView = "Forms" /\ FormsNext

InitAdmin ==
    \/ InitOrders
    \/ InitLoyalty
    \/ InitApp
    \/ InitCatalog
    \/ InitSearch
    \/ InitForms

SpecAdmin == InitAdmin /\ [][AdminNext]_vars

\* the step is made by the user (a click, a keystroke, a submit) or is the
\* loading of the page
UserActs ==
    \/ nActions' # nActions
    \/ nClicks' # nClicks
    \/ nSteps' # nSteps
    \/ mounted' # mounted
    \/ nCatalog' # nCatalog
    \/ nForms' # nForms

\* the place of a request in the handler that sends it: 1 for the request a
\* handler starts with, 2 and 3 for the re-fetches that follow its success
Stage(kind) ==
    CASE kind \in {"list", "detail", "users", "bouquets"} -> 2
      [] kind = "history" -> 3
      [] OTHER -> 1

\* X and Y are the requests in flight before and after a step.  The step that
\* handles a response sends only requests of a later stage of the handler,
\* so never the request that was answered nor one that led to it; and a
\* request is sent only by a step of the user or by the step that handles a
\* response (there is no timer that sends one)
NoRetry(X, Y) ==
    /\ \A m \in X \ Y, r \in Y \ X :
          (m.phase \in {"ok", "fail"} /\ r.phase = "req")
             => Stage(r.kind) > Stage(m.kind)
    /\ (\E r \in Y \ X : r.phase = "req") =>
          (UserActs \/ \E m \in X \ Y : m.phase \in {"ok", "fail"})

\* C20: nothing is retried: after a request has failed (auth check, list
\* fetch, status change, loyalty adjustment, save, toggle, delete, broadcast)
\* the handling of the failure sends no request for that operation, and none
\* is sent later unless the user acts again.
C20_NoAutomaticRetry ==
    [][/\ NoRetry(net, net')
       /\ NoRetry(calls, calls')
       /\ NoRetry(wire, wire')
       /\ NoRetry(air, air')
       /\ NoRetry(outbox, outbox')
      ]_vars

\* a broadcast has failed, the failure is on the screen and nothing is in
\* flight
C20_Witness ==
    /\ formPage = "Broadcast"
    /\ broadcastError = BroadcastError
    /\ ~sending
    /\ outbox = {}

=============================================================================
